---------------------------- MODULE Spec2Model ----------------------------
(***************************************************************************)
(* A model of the event placer's scheduling engine                         *)
(* (src/event_placer_v2/js/schedule.js and models.js): the seeded Random   *)
(* generator, the Schedule time grid, placeEvent, and the phases of        *)
(* createSchedule, one action per loop step of createSchedule.             *)
(*                                                                         *)
(* JavaScript strings are modelled as sequences of one-character strings,  *)
(* so that split(" ") and startsWith are computed and not assumed.         *)
(* JavaScript numbers are IEEE doubles: Random.nextInt is computed with    *)
(* the two roundings to 53 bits that the double product and sum perform.   *)
(***************************************************************************)
EXTENDS Integers, Sequences, FiniteSets

(***************************************************************************)
(* Bounds of the model.                                                    *)
(***************************************************************************)
\* the largest number of activities passed to createSchedule
MaxEvents == 3
\* the largest number of calls a caller of the public interface makes
MaxCalls == 2
\* the largest number of calls made on a Random instance
MaxDraws == 3
\* the longest array handed to Random.shuffle
MaxArray == 4

(***************************************************************************)
(* Program constants.                                                      *)
(***************************************************************************)
\* Random.m - 1 = 0x80000000 - 1 (the divisor of nextFloat)
RngM1 == 2147483647
\* Random.a
RngA == 1103515245
\* Random.c
RngC == 12345
\* the capacity of a virtual room made by addUnscheduledLocation
VirtualCapacity == 9999

(***************************************************************************)
(* Strings.                                                                *)
(***************************************************************************)
\* stands for the value undefined where a string is expected: a sequence no
\* string of the model equals
JsUndefined == <<"?undefined">>

Space == <<" ">>

\* String.prototype.startsWith
StartsWith(s, p) ==
    /\ Len(p) <= Len(s)
    /\ \A k \in 1..Len(p) : s[k] = p[k]

\* String.prototype.split(" "): the sequence of the parts between spaces
RECURSIVE SplitFrom(_, _, _)
SplitFrom(s, k, cur) ==
    IF k > Len(s) THEN <<cur>>
    ELSE IF s[k] = " " THEN <<cur>> \o SplitFrom(s, k + 1, <<>>)
    ELSE SplitFrom(s, k + 1, Append(cur, s[k]))

Split(s) == SplitFrom(s, 1, <<>>)

\* parts[n] of a split, JavaScript's undefined when there is no such part
Part(s, n) == IF n + 1 <= Len(Split(s)) THEN Split(s)[n + 1] ELSE JsUndefined

(***************************************************************************)
(* Random: the linear congruential generator in double arithmetic.         *)
(* Integers of the model stay below 2^31, so a product is kept as a pair   *)
(* <<hi, lo>> that stands for hi * 2^31 + lo with 0 <= lo < 2^31.          *)
(***************************************************************************)
\* 2^n for n in 0..30
Pow2(n) ==
    <<1, 2, 4, 8, 16, 32, 64, 128, 256, 512, 1024, 2048, 4096, 8192, 16384,
      32768, 65536, 131072, 262144, 524288, 1048576, 2097152, 4194304,
      8388608, 16777216, 33554432, 67108864, 134217728, 268435456,
      536870912, 1073741824>>[n + 1]

\* lo + n as a pair <<carry, low 31 bits>>, for 0 <= lo, n <= 2^31 - 1
AddLow(lo, n) ==
    IF lo > RngM1 - n THEN <<1, (lo - (RngM1 - n)) - 1>> ELSE <<0, lo + n>>

\* the exact product Random.a * state, for 0 <= state < 2^31
MulA(state) ==
    LET ah == RngA \div 65536
        al == RngA % 65536
        sh == state \div 65536
        sl == state % 65536
        A  == ah * sh
        B  == ah * sl + al * sh
        C  == al * sl
        bh == B \div 32768
        bl == B % 32768
        low == AddLow(bl * 65536, C)
    IN  <<2 * A + bh + low[1], low[2]>>

\* the number of low bits a double drops from hi * 2^31 + lo (0 below 2^53;
\* hi < 2^31, so at most 9)
RECURSIVE DroppedBits(_, _)
DroppedBits(hi, e) ==
    IF e = 9 \/ hi < Pow2(22 + e) THEN e ELSE DroppedBits(hi, e + 1)

\* the member of a singleton set.  A value is bound through a singleton set
\* where the arithmetic below uses it many times, so that it is computed once.
Only(S) == CHOOSE r \in S : TRUE

\* IEEE round-to-nearest, ties to even, of hi * 2^31 + lo to 53 bits
RoundDouble(x) ==
    LET hi == x[1]
        lo == x[2]
    IN  Only({LET q  == Pow2(e)
                  rem == lo % q
                  base == lo - rem
                  up == \/ 2 * rem > q
                        \/ 2 * rem = q /\ (base \div q) % 2 = 1
              IN  IF e = 0 \/ ~up THEN <<hi, base>>
                  ELSE LET r == AddLow(base, q) IN <<hi + r[1], r[2]>> :
              e \in {DroppedBits(hi, 0)}})

\* the double prod + this.c, for the double prod = this.a * this.state
AddC(prod) ==
    LET s == AddLow(prod[2], RngC)
    IN  RoundDouble(<<prod[1] + s[1], s[2]>>)

\* lo - n as a pair <<borrow, low 31 bits>>, for 0 <= lo, n <= 2^31 - 1
SubLow(lo, n) ==
    IF lo >= n THEN <<0, lo - n>> ELSE <<1, ((RngM1 - n) + lo) + 1>>

\* the magnitude of the double -prod + this.c, for prod >= this.c
SubC(prod) ==
    LET d == SubLow(prod[2], RngC)
    IN  RoundDouble(<<prod[1] - d[1], d[2]>>)

\* a variant of nextInt in exact integer arithmetic, with no rounding
NextStateExact(state) ==
    IF state >= 0 THEN AddLow(MulA(state)[2], RngC)[2]
    ELSE -(SubLow(MulA(-state)[2], RngC)[2])

\* Random.nextInt: the new state (this.a * this.state + this.c) % this.m.
\* For a negative state the product and the sum are negative, rounding is
\* symmetric, and % keeps the sign of the dividend.
NextState(state) ==
    IF state >= 0
    THEN Only({AddC(prod)[2] : prod \in {RoundDouble(MulA(state))}})
    ELSE -Only({SubC(prod)[2] : prod \in {RoundDouble(MulA(-state))}})

\* floor(state * n / (m - 1)) without a product above 2^31: n additions of
\* state, counting the times the sum passes m - 1
RECURSIVE ScaleFloor(_, _, _, _)
ScaleFloor(state, n, remd, quo) ==
    IF n = 0 THEN quo
    ELSE IF state >= RngM1 - remd
         THEN ScaleFloor(state, n - 1, remd - (RngM1 - state), quo + 1)
         ELSE ScaleFloor(state, n - 1, remd + state, quo)

\* what is left of state * n after the multiples of m - 1 are taken out
RECURSIVE ScaleRest(_, _, _)
ScaleRest(state, n, remd) ==
    IF n = 0 THEN remd
    ELSE IF state >= RngM1 - remd
         THEN ScaleRest(state, n - 1, remd - (RngM1 - state))
         ELSE ScaleRest(state, n - 1, remd + state)

\* Math.floor(this.nextFloat() * n) for the state nextInt has just stored;
\* for a negative state the floor of the negative product
FloorOfFloat(state, n) ==
    IF state >= 0 THEN ScaleFloor(state, n, 0, 0)
    ELSE -(ScaleFloor(-state, n, 0, 0)
              + (IF ScaleRest(-state, n, 0) = 0 THEN 0 ELSE 1))

\* n copies of v
RECURSIVE Fill(_, _)
Fill(v, n) == IF n <= 0 THEN <<>> ELSE <<v>> \o Fill(v, n - 1)

\* [array[i], array[j]] = [array[j], array[i]] on a 0-indexed array: an
\* index past the end reads undefined (0 here) and, written, extends it
ArrayGet(array, k) == IF k >= 0 /\ k < Len(array) THEN array[k + 1] ELSE 0

ArraySet(array, k, v) ==
    IF k < 0 THEN array
    ELSE IF k < Len(array)
         THEN SubSeq(array, 1, k) \o <<v>> \o SubSeq(array, k + 2, Len(array))
         ELSE array \o Fill(0, k - Len(array)) \o <<v>>

Swap(array, i, j) ==
    ArraySet(ArraySet(array, i, ArrayGet(array, j)), j, ArrayGet(array, i))

\* Random.shuffle from index i down: <<the array, the state afterwards>>
RECURSIVE ShuffleFrom(_, _, _)
\* one iteration, given the state st that nextInt has stored
SwapAt(array, st, i) ==
    Only({ShuffleFrom(swapped, st, i - 1) :
             swapped \in {Swap(array, i, FloorOfFloat(st, i + 1))}})

ShuffleFrom(array, state, i) ==
    IF i <= 0 THEN <<array, state>>
    ELSE Only({SwapAt(array, st, i) : st \in {NextState(state)}})

Shuffle(array, state) == ShuffleFrom(array, state, Len(array) - 1)

\* the pairs <<i, j>> of line 30, for the iterations from index i down
RECURSIVE SwapIndexesFrom(_, _)
SwapIndexesFrom(state, i) ==
    IF i <= 0 THEN <<>>
    ELSE Only({<< <<i, FloorOfFloat(st, i + 1)>> >> \o SwapIndexesFrom(st, i - 1) :
                  st \in {NextState(state)}})

SwapIndexes(array, state) == SwapIndexesFrom(state, Len(array) - 1)

(***************************************************************************)
(* Schedule: the time grid.  sch holds the fields the constructor sets     *)
(* from its arguments; a grid row is a sequence of slots, 0 for empty and  *)
(* the activity's number otherwise.                                        *)
(***************************************************************************)
\* Math.ceil(a / b) and Math.floor(a / b) for b > 0
CeilDiv(a, b) == -((-a) \div b)

FloorDiv(a, b) == a \div b

DayIntervals(s) == FloorDiv(s.schEndMin - s.schStartMin, s.interval)

WeekIntervals(s) == DayIntervals(s) * Len(s.shortDays)

\* this.dayOffsets.hasOwnProperty(day)
HasDay(s, day) == \E k \in 1..Len(s.shortDays) : s.shortDays[k] = day

\* this.dayOffsets[day]: forEach stores index * dayIntervals, the last wins
DayOffset(s, day) ==
    LET idx == CHOOSE k \in 1..Len(s.shortDays) :
                   /\ s.shortDays[k] = day
                   /\ \A n \in (k + 1)..Len(s.shortDays) : s.shortDays[n] # day
    IN  (idx - 1) * DayIntervals(s)

\* new Array(this.weekIntervals).fill(0)
EmptyRow(s) == Fill(0, WeekIntervals(s))

\* new Array(this.weekIntervals) throws a RangeError: weekIntervals is not an
\* integer from 0 up.  A division by the interval 0 gives an infinity or NaN,
\* and so does its product with the number of days; with a negative interval
\* Math.floor(x / interval) is -Math.ceil(x / -interval).
InvalidArrayLength(s) ==
    IF s.interval = 0 THEN TRUE
    ELSE IF s.interval > 0 THEN WeekIntervals(s) < 0
    ELSE -CeilDiv(s.schEndMin - s.schStartMin, -s.interval) * Len(s.shortDays) < 0

\* a variant of the range for one day without the bounds check of line 108
DayRangeUnchecked(s, t, day) ==
    LET slotsNeeded == CeilDiv(t.endMin - t.startMin, s.interval)
        timeOffsetMin == t.startMin - s.schStartMin
        startIdx == DayOffset(s, day) + FloorDiv(timeOffsetMin, s.interval)
    IN  IF ~HasDay(s, day) THEN <<>>
        ELSE IF timeOffsetMin < 0 THEN <<>>
        ELSE << <<startIdx, startIdx + slotsNeeded>> >>

\* the range getIndicesForEvent pushes for one day, <<>> when it pushes none
DayRange(s, t, day) ==
    LET slotsNeeded == CeilDiv(t.endMin - t.startMin, s.interval)
        timeOffsetMin == t.startMin - s.schStartMin
        startIdx == DayOffset(s, day) + FloorDiv(timeOffsetMin, s.interval)
        endIdx == startIdx + slotsNeeded
    IN  IF ~HasDay(s, day) THEN <<>>
        ELSE IF timeOffsetMin < 0 THEN <<>>
        ELSE IF endIdx <= DayOffset(s, day) + DayIntervals(s)
             THEN << <<startIdx, endIdx>> >>
             ELSE <<>>

RECURSIVE RangesFrom(_, _, _)
RangesFrom(s, t, k) ==
    IF k > Len(t.days) THEN <<>>
    ELSE DayRange(s, t, t.days[k]) \o RangesFrom(s, t, k + 1)

\* Schedule.getIndicesForEvent
GetIndicesForEvent(s, t) == RangesFrom(s, t, 1)

\* locationArr[k] !== 0, where an index outside the array reads undefined
Occupied(row, k) == IF k >= 0 /\ k < Len(row) THEN row[k + 1] # 0 ELSE TRUE

\* Schedule.checkTimeGap: TRUE on a collision
CheckTimeGap(s, row, start, end) ==
    IF s.timeGap = 0 THEN FALSE
    ELSE LET gapSlots == CeilDiv(s.timeGap, s.interval)
         IN  \/ \E i \in 1..gapSlots : start - i >= 0 /\ Occupied(row, start - i)
             \/ \E i \in 0..(gapSlots - 1) :
                    end + i < Len(row) /\ Occupied(row, end + i)

(***************************************************************************)
(* State.                                                                  *)
(***************************************************************************)
VARIABLES
    sch,            \* the Schedule's interval, timeGap, schStartMin,
                    \* schEndMin, shortDays and locationPreferences
    locations,      \* this.locations: a sequence of [name, capacity]
    scheduleGrid,   \* this.scheduleGrid: name -> row
    unscheduledCount, \* this.unscheduledCount
    metrics,        \* this.metrics
    ev,             \* the Event objects, by number
    events,         \* the events array createSchedule is given (and shuffles)
    seed,           \* the seed argument: <<>> when not supplied, else <<n>>
    rng,            \* rng.state
    failures, waitingList, finalList, unscheduled, currentBatch,
    pc,             \* the position in createSchedule
    idx,            \* the position of the running for-of loop (from 1)
    cand,           \* the position in the loop over candidate locations
    lastCall,       \* the last placeEvent call and the state it started from
    overflow,       \* history: the pool size when Phase 4 began, its passes
    runNo,          \* which of two independent runs this is
    firstRun,       \* the outcome of the first run, once it has returned
    gen,            \* Random instances made and used outside createSchedule
    ret             \* a direct call of getIndicesForEvent: argument, result

vars == <<sch, locations, scheduleGrid, unscheduledCount, metrics, ev, events,
          seed, rng, failures, waitingList, finalList, unscheduled,
          currentBatch, pc, idx, cand, lastCall, overflow, runNo, firstRun,
          gen, ret>>

(***************************************************************************)
(* Event (models.js).                                                      *)
(***************************************************************************)
\* Event.updateIndices: the indices afterwards
UpdateIndices(indices, newIndices) ==
    IF Len(indices) # 0 THEN indices ELSE newIndices

\* Event.reset
Reset(e) == [e EXCEPT !.indices = <<>>, !.placedLocation = <<>>, !.metric = 0]

\* this.pastLocationString == getHistoricalLocations()[0]
PastLocationString(e) == e.bldgCode \o Space \o e.roomNumber

(***************************************************************************)
(* Schedule.placeEvent: the result, the grid and the event afterwards.     *)
(***************************************************************************)
\* the slots of a list of ranges
RangeSlots(ranges) ==
    UNION {ranges[n][1]..(ranges[n][2] - 1) : n \in 1..Len(ranges)}

\* a variant of the loop over ranges without its overlap check
CollidesGapOnly(s, row, ranges) ==
    \E n \in 1..Len(ranges) :
        ranges[n][1] # 0 /\ CheckTimeGap(s, row, ranges[n][1], ranges[n][2])

\* the gap or overlap check of the loop over ranges fails for some range
Collides(s, row, ranges) ==
    \E n \in 1..Len(ranges) :
        \/ ranges[n][1] # 0 /\ CheckTimeGap(s, row, ranges[n][1], ranges[n][2])
        \/ \E k \in ranges[n][1]..(ranges[n][2] - 1) : Occupied(row, k)

\* the row after the "Place it" loop has run for the ranges from n on
RECURSIVE WriteFrom(_, _, _, _)
WriteFrom(row, ranges, n, e) ==
    IF n > Len(ranges) THEN row
    ELSE LET start == ranges[n][1]
             end == ranges[n][2]
             written == IF end <= start THEN row
                        ELSE SubSeq(row, 1, start) \o Fill(e, end - start)
                                 \o SubSeq(row, end + 1, Len(row))
         IN  WriteFrom(written, ranges, n + 1, e)

\* a variant of the "Place it" loop that stops after the first range
WriteFirstRange(row, ranges, e) == WriteFrom(row, <<ranges[1]>>, 1, e)

WriteRow(row, ranges, e) == WriteFrom(row, ranges, 1, e)

\* a variant of the bounds check that tests the start of the window only
OutOfBoundsStartOnly(s, event) == event.startMin < s.schStartMin

\* line 134: the event's window is not inside the schedule's bounds
OutOfBounds(s, event) ==
    event.startMin < s.schStartMin \/ event.endMin > s.schEndMin

\* a variant of the capacity check that is off by one
OverCapacityByTwo(event, loc) == event.seats > loc.capacity + 1

\* line 148: the capacity check
OverCapacity(event, loc) == event.seats > loc.capacity

\* a variant of the rollback that leaves the recorded ranges in place
KeepIndices(evs, e) == evs

\* event.indices = [] before a return false
ClearIndices(evs, e) == [evs EXCEPT ![e].indices = <<>>]

\* a variant in which force does not bypass the capacity check
PlaceEventForceKeepsCapacity(s, grid, evs, e, loc, force) ==
    LET event  == evs[e]
        ranges == GetIndicesForEvent(s, event)
        marked == [evs EXCEPT ![e].indices = UpdateIndices(event.indices, ranges)]
    IN  IF OutOfBounds(s, event)
        THEN [result |-> FALSE, grid |-> grid, ev |-> evs]
        ELSE IF Len(ranges) = 0
        THEN [result |-> FALSE, grid |-> grid, ev |-> marked]
        ELSE IF OverCapacity(event, loc)
        THEN [result |-> FALSE, grid |-> grid, ev |-> ClearIndices(marked, e)]
        ELSE IF ~force /\ Collides(s, grid[loc.name], ranges)
        THEN [result |-> FALSE, grid |-> grid, ev |-> ClearIndices(marked, e)]
        ELSE [result |-> TRUE,
              grid |-> [grid EXCEPT ![loc.name] = WriteRow(@, ranges, e)],
              ev |-> [marked EXCEPT ![e].placedLocation = loc.name]]

PlaceEvent(s, grid, evs, e, loc, force) ==
    LET event  == evs[e]
        ranges == GetIndicesForEvent(s, event)
        marked == [evs EXCEPT ![e].indices = UpdateIndices(event.indices, ranges)]
    IN  IF OutOfBounds(s, event)
        THEN [result |-> FALSE, grid |-> grid, ev |-> evs]
        ELSE IF Len(ranges) = 0
        THEN [result |-> FALSE, grid |-> grid, ev |-> marked]
        ELSE IF ~force /\ OverCapacity(event, loc)
        THEN [result |-> FALSE, grid |-> grid, ev |-> ClearIndices(marked, e)]
        ELSE IF ~force /\ Collides(s, grid[loc.name], ranges)
        THEN [result |-> FALSE, grid |-> grid, ev |-> ClearIndices(marked, e)]
        ELSE [result |-> TRUE,
              grid |-> [grid EXCEPT ![loc.name] = WriteRow(@, ranges, e)],
              ev |-> [marked EXCEPT ![e].placedLocation = loc.name]]

(***************************************************************************)
(* createSchedule: helpers.  A location is named by its position in        *)
(* this.locations (the object's identity).                                 *)
(***************************************************************************)
StrNan == <<"n", "a", "n">>

StrUndefined == <<"u", "n", "d", "e", "f", "i", "n", "e", "d">>

\* the members of a set of positions in increasing order: what
\* Array.prototype.filter keeps, in the array's order
RECURSIVE Ascending(_)
Ascending(S) ==
    IF S = {} THEN <<>>
    ELSE LET least == CHOOSE k \in S : \A h \in S : k <= h
         IN  <<least>> \o Ascending(S \ {least})

\* findLoc: the position of the first location named cleanName, 0 for none
FindLoc(locs, name) ==
    LET cleanName ==
            IF Part(name, 1) = <<"0", "0">> \/ Part(name, 1) = <<"0", "0", "0">>
            THEN Part(name, 0) \o <<" ", "0">>
            ELSE name
        hits == {k \in 1..Len(locs) : locs[k].name = cleanName}
    IN  IF hits = {} THEN 0 ELSE CHOOSE k \in hits : \A h \in hits : k <= h

\* findLocsByBldg
FindLocsByBldg(locs, bldg) ==
    Ascending({k \in 1..Len(locs) : StartsWith(locs[k].name, bldg)})

\* this.locationPreferences[dept] is truthy
HasPreferences(s, dept) == dept \in DOMAIN s.locationPreferences

RECURSIVE PreferredFrom(_, _, _)
PreferredFrom(locs, prefBldgs, k) ==
    IF k > Len(prefBldgs) THEN <<>>
    ELSE FindLocsByBldg(locs, prefBldgs[k]) \o PreferredFrom(locs, prefBldgs, k + 1)

\* potentialLocs of Phase 3
PotentialLocs(s, locs, event) ==
    LET preferred ==
            IF HasPreferences(s, event.dept)
            THEN PreferredFrom(locs, s.locationPreferences[event.dept], 1)
            ELSE <<>>
        remaining ==
            {k \in 1..Len(locs) : \A n \in 1..Len(preferred) : preferred[n] # k}
    IN  preferred \o Ascending(remaining)

\* array.filter(e => e !== event)
Without(array, e) == SelectSeq(array, LAMBDA x : x # e)

\* the state of new Random(seed): a falsy seed takes Math.random's value
FalsySeed(sd) == sd = <<>> \/ sd[1] = 0

(***************************************************************************)
(* calculateMetrics.                                                       *)
(***************************************************************************)
\* a variant of the tier chain without its final else branch
TierWithoutOther(s, e) ==
    LET placedBldg == Part(e.placedLocation, 0)
        placedRoom == Part(e.placedLocation, 1)
    IN  IF e.placedLocation = <<>> THEN 0
        ELSE IF e.bldgCode = StrNan \/ e.bldgCode = <<>> THEN 1
        ELSE IF e.bldgCode = placedBldg /\ e.roomNumber = placedRoom THEN 1
        ELSE IF e.bldgCode = placedBldg
                /\ (e.roomNumber = StrNan \/ e.roomNumber = <<>>) THEN 1
        ELSE IF e.bldgCode = placedBldg THEN 2
        ELSE IF /\ HasPreferences(s, e.dept)
                /\ \E n \in 1..Len(s.locationPreferences[e.dept]) :
                       s.locationPreferences[e.dept][n] = placedBldg
             THEN 3
        ELSE 0

\* the tier of one event, 0 when it is skipped
Tier(s, e) ==
    LET placedBldg == Part(e.placedLocation, 0)
        placedRoom == Part(e.placedLocation, 1)
    IN  IF e.placedLocation = <<>> THEN 0
        ELSE IF e.bldgCode = StrNan \/ e.bldgCode = <<>> THEN 1
        ELSE IF e.bldgCode = placedBldg /\ e.roomNumber = placedRoom THEN 1
        ELSE IF e.bldgCode = placedBldg
                /\ (e.roomNumber = StrNan \/ e.roomNumber = <<>>) THEN 1
        ELSE IF e.bldgCode = placedBldg THEN 2
        ELSE IF /\ HasPreferences(s, e.dept)
                /\ \E n \in 1..Len(s.locationPreferences[e.dept]) :
                       s.locationPreferences[e.dept][n] = placedBldg
             THEN 3
        ELSE 4

\* the number of events calculateMetrics counts in tier t
CountTier(s, evs, array, t) ==
    Cardinality({k \in 1..Len(array) : array[k] # 0 /\ Tier(s, evs[array[k]]) = t})

(***************************************************************************)
(* Inputs: the arguments of new Schedule(...), setLocationPreferences and  *)
(* createSchedule are drawn from these sets.                               *)
(***************************************************************************)
BldgA == <<"A">>

BldgAB == <<"A", "B">>

Name(bldg, room) == bldg \o Space \o room

\* 08:00 to 08:30 in slots of 10 minutes on Monday and Tuesday, with no
\* minimum gap or a gap of 5 minutes (one slot)
Configs ==
    {[interval |-> 10, timeGap |-> g, schStartMin |-> 480, schEndMin |-> 510,
      shortDays |-> <<"M", "T">>,
      locationPreferences |-> [d \in {"X"} |-> <<BldgAB>>]] : g \in {0, 5}}

\* the rooms the caller supplies
LocationLists ==
    {<<[name |-> Name(BldgA, <<"1">>), capacity |-> 2]>>,
     <<[name |-> Name(BldgA, <<"1">>), capacity |-> 2],
       [name |-> Name(BldgAB, <<"0">>), capacity |-> 1]>>}

\* an Event as its constructor leaves it
NewEvent(days, startMin, endMin, seats, bldg, room, dept) ==
    [days |-> days, startMin |-> startMin, endMin |-> endMin, seats |-> seats,
     bldgCode |-> bldg, roomNumber |-> room, dept |-> dept,
     indices |-> <<>>, placedLocation |-> <<>>, metric |-> 0]

\* the activities a caller may pass
Catalogue ==
    <<NewEvent(<<"M">>, 480, 490, 1, BldgA, <<"1">>, "X"),
      NewEvent(<<"M">>, 490, 500, 1, BldgA, <<"1">>, "Y"),
      NewEvent(<<"M", "T">>, 490, 510, 2, StrNan, StrNan, "X"),
      NewEvent(<<"M">>, 480, 490, 3, StrNan, <<"1">>, "Y"),
      NewEvent(<<"W">>, 480, 490, 1, BldgA, StrNan, "X"),
      NewEvent(<<"M">>, 470, 490, 1, <<>>, <<>>, "Y"),
      NewEvent(<<"T">>, 505, 511, 1, BldgA, <<"1">>, "Y"),
      NewEvent(<<"T">>, 495, 505, 1, BldgAB, <<"0", "0">>, "Y"),
      NewEvent(<<"M">>, 480, 490, 1, StrUndefined, <<"1">>, "Y"),
      NewEvent(<<"M">>, 480, 490, 2, StrNan, <<>>, "Y"),
      NewEvent(<<"T">>, 480, 490, 1, BldgA, StrUndefined, "Y")>>

\* event lists of up to MaxEvents different catalogue entries, in catalogue
\* order (the seeded shuffle then orders them)
EventLists ==
    {q \in UNION {[1..n -> 1..Len(Catalogue)] : n \in 0..MaxEvents} :
        \A k \in 1..(Len(q) - 1) : q[k] < q[k + 1]}

\* seeds a caller supplies (<<>> stands for a call without a seed)
Seeds == {<<0>>, <<1>>, <<2>>}

\* values of Math.floor(Math.random() * (this.m - 1))
RandomStates == {100, 1000}

NoCall == [n |-> 0, event |-> 0, loc |-> <<>>, force |-> FALSE, result |-> FALSE]

Init ==
    /\ sch \in Configs
    /\ locations \in LocationLists
    /\ scheduleGrid = [n \in {locations[k].name : k \in 1..Len(locations)} |->
                          EmptyRow(sch)]
    /\ unscheduledCount = 0
    /\ metrics = <<0, 0, 0, 0>>
    /\ \E q \in EventLists :
          /\ ev = [k \in 1..Len(q) |-> Catalogue[q[k]]]
          /\ events = [k \in 1..Len(q) |-> k]
    /\ seed \in Seeds
    /\ rng = 0
    /\ failures = 0
    /\ waitingList = <<>>
    /\ finalList = <<>>
    /\ unscheduled = <<>>
    /\ currentBatch = <<>>
    /\ pc = "start"
    /\ idx = 1
    /\ cand = 1
    /\ lastCall = NoCall
    /\ overflow = [U |-> 0, passes |-> 0]
    /\ runNo = 1
    /\ firstRun = <<>>
    /\ gen = <<>>
    /\ ret = <<>>

(***************************************************************************)
(* createSchedule, one action per step of its loops.  The locals of a step  *)
(* (the event, the candidate rooms, what placeEvent returns) are bound with *)
(* \E over a singleton set: each is one value, computed once.               *)
(***************************************************************************)
\* what a placeEvent call of createSchedule leaves behind
Call(e, loc, r) ==
    /\ scheduleGrid' = r.grid
    /\ ev' = r.ev
    /\ lastCall' = [n |-> lastCall.n + 1, event |-> e, loc |-> loc.name,
                    force |-> FALSE, result |-> r.result]

\* lines 183-191: new Random(seed), reset every event, shuffle the events
Begin ==
    /\ pc = "start"
    /\ \E st \in (IF FalsySeed(seed) THEN RandomStates ELSE {seed[1]}) :
          \E sh \in {Shuffle(events, st)} :
              /\ events' = sh[1]
              /\ rng' = sh[2]
    /\ ev' = [k \in DOMAIN ev |-> Reset(ev[k])]
    /\ failures' = 0
    /\ waitingList' = <<>>
    /\ finalList' = <<>>
    /\ unscheduled' = <<>>
    /\ pc' = "phase1"
    /\ idx' = 1
    /\ cand' = 1
    /\ UNCHANGED <<ret, gen, sch, locations, scheduleGrid, unscheduledCount, metrics,
                   seed, currentBatch, lastCall, overflow, runNo, firstRun>>

\* Phase 1 routes an event with an unknown building or room, lines 213-220
Phase1Route ==
    /\ pc = "phase1"
    /\ idx <= Len(events)
    /\ LET e == events[idx]
           unknownBldg == ev[e].bldgCode = StrUndefined \/ ev[e].bldgCode = StrNan
           unknownRoom == ev[e].roomNumber = StrUndefined \/ ev[e].roomNumber = StrNan
       IN  /\ unknownBldg \/ unknownRoom
           /\ finalList' = IF unknownBldg THEN Append(finalList, e) ELSE finalList
           /\ waitingList' = IF unknownBldg THEN waitingList
                             ELSE Append(waitingList, e)
    /\ idx' = idx + 1
    /\ UNCHANGED <<ret, gen, sch, locations, scheduleGrid, unscheduledCount, metrics, ev,
                   events, seed, rng, failures, unscheduled, currentBatch, pc,
                   cand, lastCall, overflow, runNo, firstRun>>

\* Phase 1 tries the historical room, lines 222-233
Phase1Attempt ==
    /\ pc = "phase1"
    /\ idx <= Len(events)
    /\ \E e \in {events[idx]} :
           /\ ev[e].bldgCode # StrUndefined /\ ev[e].bldgCode # StrNan
           /\ ev[e].roomNumber # StrUndefined /\ ev[e].roomNumber # StrNan
           /\ \E loc \in {FindLoc(locations, PastLocationString(ev[e]))} :
              IF loc # 0
              THEN \E r \in {PlaceEvent(sch, scheduleGrid, ev, e, locations[loc], FALSE)} :
                       /\ Call(e, locations[loc], r)
                       /\ failures' = IF r.result THEN failures ELSE failures + 1
                       /\ waitingList' = IF r.result THEN waitingList
                                         ELSE Append(waitingList, e)
              ELSE /\ failures' = failures + 1
                   /\ waitingList' = Append(waitingList, e)
                   /\ UNCHANGED <<scheduleGrid, ev, lastCall>>
    /\ idx' = idx + 1
    /\ UNCHANGED <<ret, gen, sch, locations, unscheduledCount, metrics, events, seed, rng,
                   finalList, unscheduled, currentBatch, pc, cand, overflow,
                   runNo, firstRun>>

\* line 237: the end of Phase 1, rng.shuffle(waitingList)
Phase1Done ==
    /\ pc = "phase1"
    /\ idx > Len(events)
    /\ \E sh \in {Shuffle(waitingList, rng)} :
           /\ waitingList' = sh[1]
           /\ rng' = sh[2]
    /\ pc' = "phase2"
    /\ idx' = 1
    /\ cand' = 1
    /\ UNCHANGED <<ret, gen, sch, locations, scheduleGrid, unscheduledCount, metrics, ev,
                   events, seed, failures, finalList, unscheduled, currentBatch,
                   lastCall, overflow, runNo, firstRun>>

\* Phase 2 finds no room of the building, lines 239-245
Phase2Route ==
    /\ pc = "phase2"
    /\ idx <= Len(waitingList)
    /\ \E e \in {waitingList[idx]} :
           /\ Len(FindLocsByBldg(locations, ev[e].bldgCode)) = 0
           /\ finalList' = Append(finalList, e)
    /\ idx' = idx + 1
    /\ UNCHANGED <<ret, gen, sch, locations, scheduleGrid, unscheduledCount, metrics, ev,
                   events, seed, rng, failures, waitingList, unscheduled,
                   currentBatch, pc, cand, lastCall, overflow, runNo, firstRun>>

\* Phase 2 tries the next room of the building, lines 247-257
Phase2Attempt ==
    /\ pc = "phase2"
    /\ idx <= Len(waitingList)
    /\ \E e \in {waitingList[idx]} :
       \E bldgLocs \in {FindLocsByBldg(locations, ev[e].bldgCode)} :
           /\ Len(bldgLocs) # 0
           /\ \E loc \in {locations[bldgLocs[cand]]} :
              \E r \in {PlaceEvent(sch, scheduleGrid, ev, e, loc, FALSE)} :
              LET last == cand = Len(bldgLocs)
              IN  /\ Call(e, loc, r)
                  /\ idx' = IF r.result \/ last THEN idx + 1 ELSE idx
                  /\ cand' = IF r.result \/ last THEN 1 ELSE cand + 1
                  /\ failures' = IF ~r.result /\ last THEN failures + 1 ELSE failures
                  /\ finalList' = IF ~r.result /\ last THEN Append(finalList, e)
                                  ELSE finalList
    /\ UNCHANGED <<ret, gen, sch, locations, unscheduledCount, metrics, events, seed, rng,
                   waitingList, unscheduled, currentBatch, pc, overflow, runNo,
                   firstRun>>

\* line 261: the end of Phase 2, rng.shuffle(finalList)
Phase2Done ==
    /\ pc = "phase2"
    /\ idx > Len(waitingList)
    /\ \E sh \in {Shuffle(finalList, rng)} :
           /\ finalList' = sh[1]
           /\ rng' = sh[2]
    /\ pc' = "phase3"
    /\ idx' = 1
    /\ cand' = 1
    /\ UNCHANGED <<ret, gen, sch, locations, scheduleGrid, unscheduledCount, metrics, ev,
                   events, seed, failures, waitingList, unscheduled,
                   currentBatch, lastCall, overflow, runNo, firstRun>>

\* Phase 3 tries the next candidate room, lines 262-288
Phase3Attempt ==
    /\ pc = "phase3"
    /\ idx <= Len(finalList)
    /\ \E e \in {finalList[idx]} :
       \E potentialLocs \in {PotentialLocs(sch, locations, ev[e])} :
           IF Len(potentialLocs) = 0
           THEN /\ failures' = failures + 1
                /\ unscheduled' = Append(unscheduled, e)
                /\ idx' = idx + 1
                /\ UNCHANGED <<scheduleGrid, ev, lastCall, cand>>
           ELSE \E loc \in {locations[potentialLocs[cand]]} :
                \E r \in {PlaceEvent(sch, scheduleGrid, ev, e, loc, FALSE)} :
                LET last == cand = Len(potentialLocs)
                IN  /\ Call(e, loc, r)
                    /\ idx' = IF r.result \/ last THEN idx + 1 ELSE idx
                    /\ cand' = IF r.result \/ last THEN 1 ELSE cand + 1
                    /\ failures' = IF ~r.result /\ last THEN failures + 1
                                   ELSE failures
                    /\ unscheduled' = IF ~r.result /\ last
                                      THEN Append(unscheduled, e)
                                      ELSE unscheduled
    /\ UNCHANGED <<ret, gen, sch, locations, unscheduledCount, metrics, events, seed, rng,
                   waitingList, finalList, currentBatch, pc, overflow, runNo,
                   firstRun>>

\* the end of Phase 3: on to the while loop of Phase 4
Phase3Done ==
    /\ pc = "phase3"
    /\ idx > Len(finalList)
    /\ pc' = "phase4"
    /\ idx' = 1
    /\ overflow' = [U |-> Len(unscheduled), passes |-> 0]
    /\ UNCHANGED <<ret, gen, sch, locations, scheduleGrid, unscheduledCount, metrics, ev,
                   events, seed, rng, failures, waitingList, finalList,
                   unscheduled, currentBatch, cand, lastCall, runNo, firstRun>>

\* Schedule.addUnscheduledLocation: the name of the room it makes
VirtualName(count) ==
    <<"U", "N", " ">> \o
    <<CASE count = 0 -> "0" [] count = 1 -> "1" [] count = 2 -> "2"
        [] count = 3 -> "3" [] count = 4 -> "4" [] count = 5 -> "5"
        [] count = 6 -> "6" [] count = 7 -> "7" [] count = 8 -> "8"
        [] OTHER -> "9">>

\* lines 293-298: a pass of the while loop begins with a new virtual room
Phase4Pass ==
    /\ pc = "phase4"
    /\ Len(unscheduled) > 0
    /\ ~InvalidArrayLength(sch)
    /\ LET name == VirtualName(unscheduledCount)
       IN  /\ locations' = Append(locations,
                                  [name |-> name, capacity |-> VirtualCapacity])
           /\ scheduleGrid' =
                  [n \in DOMAIN scheduleGrid \cup {name} |->
                      IF n = name THEN EmptyRow(sch) ELSE scheduleGrid[n]]
    /\ unscheduledCount' = unscheduledCount + 1
    /\ currentBatch' = unscheduled
    /\ idx' = 1
    /\ pc' = "batch"
    /\ overflow' = [overflow EXCEPT !.passes = @ + 1]
    /\ UNCHANGED <<ret, gen, sch, metrics, ev, events, seed, rng, failures, waitingList,
                   finalList, unscheduled, cand, lastCall, runNo, firstRun>>

\* a variant of a Phase 4 attempt that counts a refusal as a failure
Phase4AttemptCounted ==
    /\ pc = "batch"
    /\ idx <= Len(currentBatch)
    /\ \E e \in {currentBatch[idx]} :
       \E newLoc \in {locations[Len(locations)]} :
       \E r \in {PlaceEvent(sch, scheduleGrid, ev, e, newLoc, FALSE)} :
           /\ Call(e, newLoc, r)
           /\ unscheduled' = IF r.result THEN Without(unscheduled, e)
                             ELSE unscheduled
           /\ failures' = IF r.result THEN failures ELSE failures + 1
    /\ idx' = idx + 1
    /\ UNCHANGED <<ret, gen, sch, locations, unscheduledCount, metrics, events,
                   seed, rng, waitingList, finalList, currentBatch, pc, cand,
                   overflow, runNo, firstRun>>

\* lines 300-305: the pass tries one event of the batch in the new room
Phase4Attempt ==
    /\ pc = "batch"
    /\ idx <= Len(currentBatch)
    /\ \E e \in {currentBatch[idx]} :
       \E newLoc \in {locations[Len(locations)]} :
       \E r \in {PlaceEvent(sch, scheduleGrid, ev, e, newLoc, FALSE)} :
           /\ Call(e, newLoc, r)
           /\ unscheduled' = IF r.result THEN Without(unscheduled, e)
                             ELSE unscheduled
    /\ idx' = idx + 1
    /\ UNCHANGED <<ret, gen, sch, locations, unscheduledCount, metrics, events, seed, rng,
                   failures, waitingList, finalList, currentBatch, pc, cand,
                   overflow, runNo, firstRun>>

\* a variant of the end of a pass that never breaks out of the loop
Phase4PassEndNoAbort ==
    /\ pc = "batch"
    /\ idx > Len(currentBatch)
    /\ pc' = "phase4"
    /\ UNCHANGED <<ret, gen, sch, locations, scheduleGrid, unscheduledCount, metrics, ev,
                   events, seed, rng, failures, waitingList, finalList,
                   unscheduled, currentBatch, idx, cand, lastCall, overflow,
                   runNo, firstRun>>

\* lines 308-312: the pass ends; it breaks out when it placed nothing
Phase4PassEnd ==
    /\ pc = "batch"
    /\ idx > Len(currentBatch)
    /\ pc' = IF Len(currentBatch) = Len(unscheduled) THEN "metrics" ELSE "phase4"
    /\ UNCHANGED <<ret, gen, sch, locations, scheduleGrid, unscheduledCount, metrics, ev,
                   events, seed, rng, failures, waitingList, finalList,
                   unscheduled, currentBatch, idx, cand, lastCall, overflow,
                   runNo, firstRun>>

\* line 293: the while loop ends with the pool empty
Phase4Exit ==
    /\ pc = "phase4"
    /\ Len(unscheduled) = 0
    /\ pc' = "metrics"
    /\ UNCHANGED <<ret, gen, sch, locations, scheduleGrid, unscheduledCount, metrics, ev,
                   events, seed, rng, failures, waitingList, finalList,
                   unscheduled, currentBatch, idx, cand, lastCall, overflow,
                   runNo, firstRun>>

\* lines 314-315: calculateMetrics, and createSchedule returns
CalculateMetrics ==
    /\ pc = "metrics"
    /\ ev' = [k \in DOMAIN ev |->
                 IF ev[k].placedLocation = <<>> \/ k \notin {events[n] : n \in 1..Len(events)}
                 THEN ev[k]
                 ELSE [ev[k] EXCEPT !.metric = Tier(sch, ev[k])]]
    /\ metrics' = <<CountTier(sch, ev, events, 1), CountTier(sch, ev, events, 2),
                    CountTier(sch, ev, events, 3), CountTier(sch, ev, events, 4)>>
    /\ pc' = "done"
    /\ UNCHANGED <<ret, gen, sch, locations, scheduleGrid, unscheduledCount, events, seed,
                   rng, failures, waitingList, finalList, unscheduled,
                   currentBatch, idx, cand, lastCall, overflow, runNo, firstRun>>

Next ==
    \/ Begin
    \/ Phase1Route
    \/ Phase1Attempt
    \/ Phase1Done
    \/ Phase2Route
    \/ Phase2Attempt
    \/ Phase2Done
    \/ Phase3Attempt
    \/ Phase3Done
    \/ Phase4Pass
    \/ Phase4Attempt
    \/ Phase4PassEnd
    \/ Phase4Exit
    \/ CalculateMetrics

Spec == Init /\ [][Next]_vars

\* createSchedule is one synchronous call: once entered, the interpreter runs
\* it step after step until it returns
FairSpec == Spec /\ WF_vars(Next)

(***************************************************************************)
(* Two independent runs on the same input: once the first has returned,    *)
(* a fresh Schedule is made for the caller's rooms and createSchedule is   *)
(* called again with the same events, in the caller's order, and seed.     *)
(***************************************************************************)
\* the rooms the caller supplied (virtual rooms are appended after them)
CallerLocations == SubSeq(locations, 1, Len(locations) - unscheduledCount)

\* what a run returns and leaves on its events and its schedule
Outcome ==
    [ev |-> ev, metrics |-> metrics, failures |-> failures,
     virtual |-> {locations[k].name :
                     k \in (Len(locations) - unscheduledCount + 1)..Len(locations)}]

SecondRun ==
    /\ pc = "done"
    /\ runNo = 1
    /\ firstRun' = <<Outcome>>
    /\ runNo' = 2
    /\ locations' = CallerLocations
    /\ scheduleGrid' = [n \in {CallerLocations[k].name : k \in 1..Len(CallerLocations)}
                           |-> EmptyRow(sch)]
    /\ unscheduledCount' = 0
    /\ metrics' = <<0, 0, 0, 0>>
    /\ events' = Ascending(DOMAIN ev)
    /\ rng' = 0
    /\ failures' = 0
    /\ waitingList' = <<>>
    /\ finalList' = <<>>
    /\ unscheduled' = <<>>
    /\ currentBatch' = <<>>
    /\ pc' = "start"
    /\ idx' = 1
    /\ cand' = 1
    /\ lastCall' = NoCall
    /\ overflow' = [U |-> 0, passes |-> 0]
    /\ UNCHANGED <<ret, gen, sch, ev, seed>>

NextPair == Next \/ SecondRun

SpecPair == Init /\ [][NextPair]_vars

(***************************************************************************)
(* From new Schedule(...) on, for any interval: the constructor and        *)
(* addUnscheduledLocation make a row with new Array(this.weekIntervals),   *)
(* which throws a RangeError when the interval makes that length invalid.  *)
(* Nothing in the constructor or in createSchedule tests the interval.     *)
(***************************************************************************)
\* configurations with an interval of 0 or below
BadConfigs ==
    {[interval |-> i, timeGap |-> 0, schStartMin |-> 480, schEndMin |-> 510,
      shortDays |-> <<"M", "T">>,
      locationPreferences |-> [d \in {"X"} |-> <<BldgAB>>]] : i \in {0, -10}}

\* the arguments of new Schedule(...) and createSchedule, before either runs
InitNew ==
    /\ sch \in Configs \cup BadConfigs
    /\ locations \in LocationLists \cup {<<>>}
    /\ scheduleGrid = <<>>
    /\ unscheduledCount = 0
    /\ metrics = <<0, 0, 0, 0>>
    /\ \E q \in EventLists :
          /\ ev = [k \in 1..Len(q) |-> Catalogue[q[k]]]
          /\ events = [k \in 1..Len(q) |-> k]
    /\ seed \in Seeds
    /\ rng = 0
    /\ failures = 0
    /\ waitingList = <<>>
    /\ finalList = <<>>
    /\ unscheduled = <<>>
    /\ currentBatch = <<>>
    /\ pc = "new"
    /\ idx = 1
    /\ cand = 1
    /\ lastCall = NoCall
    /\ overflow = [U |-> 0, passes |-> 0]
    /\ runNo = 1
    /\ firstRun = <<>>
    /\ gen = <<>>
    /\ ret = <<>>

\* lines 38-80: the constructor; the forEach of lines 70-72 makes one row per
\* location and throws at the first when the length is invalid
Construct ==
    /\ pc = "new"
    /\ IF Len(locations) > 0 /\ InvalidArrayLength(sch)
       THEN /\ pc' = "constructorThrew"
            /\ UNCHANGED scheduleGrid
       ELSE /\ pc' = "start"
            /\ scheduleGrid' = [n \in {locations[k].name : k \in 1..Len(locations)}
                                   |-> EmptyRow(sch)]
    /\ UNCHANGED <<ret, gen, sch, locations, unscheduledCount, metrics, ev, events, seed,
                   rng, failures, waitingList, finalList, unscheduled,
                   currentBatch, idx, cand, lastCall, overflow, runNo, firstRun>>

\* lines 293-294 and 322: addUnscheduledLocation pushes the new location and
\* then throws out of createSchedule
Phase4Throw ==
    /\ pc = "phase4"
    /\ Len(unscheduled) > 0
    /\ InvalidArrayLength(sch)
    /\ locations' = Append(locations, [name |-> VirtualName(unscheduledCount),
                                       capacity |-> VirtualCapacity])
    /\ pc' = "createScheduleThrew"
    /\ UNCHANGED <<ret, gen, sch, scheduleGrid, unscheduledCount, metrics, ev, events,
                   seed, rng, failures, waitingList, finalList, unscheduled,
                   currentBatch, idx, cand, lastCall, overflow, runNo, firstRun>>

NextNew == Construct \/ Next \/ Phase4Throw

SpecNew == InitNew /\ [][NextNew]_vars

(***************************************************************************)
(* The public interface used directly: on a Schedule as constructed, a     *)
(* caller makes up to MaxCalls calls of placeEvent, each for any activity, *)
(* any room of the schedule and either value of force, and may reset an    *)
(* activity in between.                                                    *)
(***************************************************************************)
\* schedule.placeEvent(event, location, force) called from outside
PlaceEventCall ==
    /\ pc = "start"
    /\ lastCall.n < MaxCalls
    /\ \E e \in DOMAIN ev : \E k \in 1..Len(locations) : \E force \in BOOLEAN :
       \E r \in {PlaceEvent(sch, scheduleGrid, ev, e, locations[k], force)} :
           /\ scheduleGrid' = r.grid
           /\ ev' = r.ev
           /\ lastCall' = [n |-> lastCall.n + 1, event |-> e,
                           loc |-> locations[k].name, force |-> force,
                           result |-> r.result]
    /\ UNCHANGED <<ret, gen, sch, locations, unscheduledCount, metrics, events, seed, rng,
                   failures, waitingList, finalList, unscheduled, currentBatch,
                   pc, idx, cand, overflow, runNo, firstRun>>

\* event.reset() called from outside: the grid is not touched
ResetCall ==
    /\ pc = "start"
    /\ lastCall.n < MaxCalls
    /\ \E e \in DOMAIN ev :
           /\ ev[e] # Reset(ev[e])
           /\ ev' = [ev EXCEPT ![e] = Reset(ev[e])]
    /\ UNCHANGED <<ret, gen, sch, locations, scheduleGrid, unscheduledCount, metrics,
                   events, seed, rng, failures, waitingList, finalList,
                   unscheduled, currentBatch, pc, idx, cand, lastCall, overflow,
                   runNo, firstRun>>

NextCalls == PlaceEventCall \/ ResetCall

SpecCalls == Init /\ [][NextCalls]_vars

(***************************************************************************)
(* Random used directly: two instances are constructed with the same seed  *)
(* argument and the same calls are made on both.  An instance is its state *)
(* with, for the last call, the state it started from and what it          *)
(* returned.  nextFloat returns the double state / (m - 1), kept as the    *)
(* pair <<state, m - 1>>: the division rounds monotonically, 0 and 1 are   *)
(* doubles and so is 1 - 2^-31, so the quotient is below 0 or below 1      *)
(* exactly when state is below 0 or below m - 1.                           *)
(***************************************************************************)
\* seeds a caller supplies: small ones, m - 1, the state whose successor
\* would be m - 1 in exact arithmetic, the largest state whose product with
\* a is below 2^53 and the next one, a clock value in seconds, negative ones
GenSeeds ==
    {<<>>, <<0>>, <<1>>, <<2>>, <<2147483647>>, <<2147483646>>, <<230538014>>,
     <<8162278>>, <<8162279>>, <<1762000000>>, <<-1>>, <<-230538014>>}

\* the arrays handed to shuffle: 1 to n
Arrays == {[k \in 1..n |-> k] : n \in 0..MaxArray}

\* lines 10-15: the instance new Random(seed) makes, from state st
NewInstance(st) ==
    [state |-> st, calls |-> 0, from |-> st, float |-> <<>>, given |-> <<>>,
     array |-> <<>>]

\* lines 22-25: nextFloat on instance g
AfterNextFloat(g) ==
    Only({[state |-> st, calls |-> g.calls + 1, from |-> g.state,
           float |-> <<st, RngM1>>, given |-> <<>>, array |-> <<>>] :
             st \in {NextState(g.state)}})

\* lines 28-34: shuffle(a) on instance g
AfterShuffle(g, a) ==
    Only({[state |-> sh[2], calls |-> g.calls + 1, from |-> g.state,
           float |-> <<>>, given |-> a, array |-> sh[1]] :
             sh \in {Shuffle(a, g.state)}})

InitRandom ==
    /\ sch \in {c \in Configs : c.timeGap = 0}
    /\ locations = <<>>
    /\ scheduleGrid = <<>>
    /\ unscheduledCount = 0
    /\ metrics = <<0, 0, 0, 0>>
    /\ ev = <<>>
    /\ events = <<>>
    /\ seed \in GenSeeds
    /\ rng = 0
    /\ failures = 0
    /\ waitingList = <<>>
    /\ finalList = <<>>
    /\ unscheduled = <<>>
    /\ currentBatch = <<>>
    /\ pc = "random"
    /\ idx = 1
    /\ cand = 1
    /\ lastCall = NoCall
    /\ overflow = [U |-> 0, passes |-> 0]
    /\ runNo = 1
    /\ firstRun = <<>>
    /\ gen = <<>>
    /\ ret = <<>>

\* new Random(seed), twice
NewRandoms ==
    /\ pc = "random"
    /\ gen = <<>>
    /\ \E st1 \in (IF FalsySeed(seed) THEN RandomStates ELSE {seed[1]}) :
       \E st2 \in (IF FalsySeed(seed) THEN RandomStates ELSE {seed[1]}) :
           gen' = <<NewInstance(st1), NewInstance(st2)>>
    /\ UNCHANGED <<ret, sch, locations, scheduleGrid, unscheduledCount, metrics,
                   ev, events, seed, rng, failures, waitingList, finalList,
                   unscheduled, currentBatch, pc, idx, cand, lastCall, overflow,
                   runNo, firstRun>>

\* nextFloat() on both instances
NextFloats ==
    /\ pc = "random"
    /\ gen # <<>>
    /\ gen[1].calls < MaxDraws
    /\ gen' = <<AfterNextFloat(gen[1]), AfterNextFloat(gen[2])>>
    /\ UNCHANGED <<ret, sch, locations, scheduleGrid, unscheduledCount, metrics,
                   ev, events, seed, rng, failures, waitingList, finalList,
                   unscheduled, currentBatch, pc, idx, cand, lastCall, overflow,
                   runNo, firstRun>>

\* shuffle(a) on both instances, each with its own copy of a
Shuffles ==
    /\ pc = "random"
    /\ gen # <<>>
    /\ gen[1].calls < MaxDraws
    /\ \E a \in Arrays :
           gen' = <<AfterShuffle(gen[1], a), AfterShuffle(gen[2], a)>>
    /\ UNCHANGED <<ret, sch, locations, scheduleGrid, unscheduledCount, metrics,
                   ev, events, seed, rng, failures, waitingList, finalList,
                   unscheduled, currentBatch, pc, idx, cand, lastCall, overflow,
                   runNo, firstRun>>

NextRandom == NewRandoms \/ NextFloats \/ Shuffles

SpecRandom == InitRandom /\ [][NextRandom]_vars

(***************************************************************************)
(* createSchedule on schedules whose preference configuration lists a      *)
(* building twice or lists a code that is a prefix of another.             *)
(***************************************************************************)
\* what setLocationPreferences is given for department X
PrefLists == {<<BldgAB, BldgAB>>, <<BldgA, BldgAB>>, <<BldgAB, BldgA>>}

PrefConfigs ==
    {[interval |-> 10, timeGap |-> 0, schStartMin |-> 480, schEndMin |-> 510,
      shortDays |-> <<"M", "T">>,
      locationPreferences |-> [d \in {"X"} |-> p]] : p \in PrefLists}

InitPrefs ==
    /\ sch \in PrefConfigs
    /\ locations \in LocationLists
    /\ scheduleGrid = [n \in {locations[k].name : k \in 1..Len(locations)} |->
                          EmptyRow(sch)]
    /\ unscheduledCount = 0
    /\ metrics = <<0, 0, 0, 0>>
    /\ \E q \in EventLists :
          /\ ev = [k \in 1..Len(q) |-> Catalogue[q[k]]]
          /\ events = [k \in 1..Len(q) |-> k]
    /\ seed \in Seeds
    /\ rng = 0
    /\ failures = 0
    /\ waitingList = <<>>
    /\ finalList = <<>>
    /\ unscheduled = <<>>
    /\ currentBatch = <<>>
    /\ pc = "start"
    /\ idx = 1
    /\ cand = 1
    /\ lastCall = NoCall
    /\ overflow = [U |-> 0, passes |-> 0]
    /\ runNo = 1
    /\ firstRun = <<>>
    /\ gen = <<>>
    /\ ret = <<>>

SpecPrefs == InitPrefs /\ [][Next]_vars

(***************************************************************************)
(* createSchedule on resource lists in which the caller has a resource     *)
(* named like a virtual room.                                              *)
(***************************************************************************)
\* rooms the caller supplies, one of them named "UN 0" or "UN 1"
NamedLikeVirtualLists ==
    {<<[name |-> VirtualName(0), capacity |-> 1]>>,
     <<[name |-> Name(BldgA, <<"1">>), capacity |-> 2],
       [name |-> VirtualName(1), capacity |-> 1]>>}

InitNames ==
    /\ sch \in {c \in Configs : c.timeGap = 0}
    /\ locations \in NamedLikeVirtualLists
    /\ scheduleGrid = [n \in {locations[k].name : k \in 1..Len(locations)} |->
                          EmptyRow(sch)]
    /\ unscheduledCount = 0
    /\ metrics = <<0, 0, 0, 0>>
    /\ \E q \in EventLists :
          /\ ev = [k \in 1..Len(q) |-> Catalogue[q[k]]]
          /\ events = [k \in 1..Len(q) |-> k]
    /\ seed \in Seeds
    /\ rng = 0
    /\ failures = 0
    /\ waitingList = <<>>
    /\ finalList = <<>>
    /\ unscheduled = <<>>
    /\ currentBatch = <<>>
    /\ pc = "start"
    /\ idx = 1
    /\ cand = 1
    /\ lastCall = NoCall
    /\ overflow = [U |-> 0, passes |-> 0]
    /\ runNo = 1
    /\ firstRun = <<>>
    /\ gen = <<>>
    /\ ret = <<>>

SpecNames == InitNames /\ [][Next]_vars

(***************************************************************************)
(* createSchedule on activities with as many attendees as a virtual room   *)
(* holds, and with one more.                                               *)
(***************************************************************************)
\* the catalogue with the enrollment of two activities of unknown building
\* raised to 9999 + 1 and to 9999
CrowdCatalogue ==
    [k \in DOMAIN Catalogue |->
        IF k = 4 THEN [Catalogue[k] EXCEPT !.seats = VirtualCapacity + 1]
        ELSE IF k = 10 THEN [Catalogue[k] EXCEPT !.seats = VirtualCapacity]
        ELSE Catalogue[k]]

InitSeats ==
    /\ sch \in Configs
    /\ locations \in {l \in LocationLists : Len(l) = 1}
    /\ scheduleGrid = [n \in {locations[k].name : k \in 1..Len(locations)} |->
                          EmptyRow(sch)]
    /\ unscheduledCount = 0
    /\ metrics = <<0, 0, 0, 0>>
    /\ \E q \in EventLists :
          /\ ev = [k \in 1..Len(q) |-> CrowdCatalogue[q[k]]]
          /\ events = [k \in 1..Len(q) |-> k]
    /\ seed \in Seeds
    /\ rng = 0
    /\ failures = 0
    /\ waitingList = <<>>
    /\ finalList = <<>>
    /\ unscheduled = <<>>
    /\ currentBatch = <<>>
    /\ pc = "start"
    /\ idx = 1
    /\ cand = 1
    /\ lastCall = NoCall
    /\ overflow = [U |-> 0, passes |-> 0]
    /\ runNo = 1
    /\ firstRun = <<>>
    /\ gen = <<>>
    /\ ret = <<>>

SpecSeats == InitSeats /\ [][Next]_vars

(***************************************************************************)
(* getIndicesForEvent called directly, on a Schedule as constructed, for   *)
(* time objects of any window: before, inside, across and after the        *)
(* schedule's span, of positive, zero and negative duration, on active and *)
(* inactive weekdays.                                                      *)
(***************************************************************************)
\* schedules of 08:00 to 08:30 on Monday and Tuesday in slots of 10 minutes
\* (three a day) and of 20 minutes (one a day, 10 minutes left over)
IndexConfigs ==
    {[interval |-> i, timeGap |-> 0, schStartMin |-> 480, schEndMin |-> 510,
      shortDays |-> <<"M", "T">>,
      locationPreferences |-> [d \in {"X"} |-> <<BldgAB>>]] : i \in {10, 20}}

\* the weekday lists of a Time object
DayLists ==
    {<<>>, <<"M">>, <<"T">>, <<"W">>, <<"M", "T">>, <<"T", "M">>,
     <<"M", "W", "T">>}

\* start and end minutes of a Time object
Minutes == {470, 480, 485, 490, 495, 500, 505, 510, 515, 520, 540}

\* the Time objects handed to getIndicesForEvent
TimeObjs ==
    {[days |-> d, startMin |-> a, endMin |-> b] :
        d \in DayLists, a \in Minutes, b \in Minutes}

InitIndices ==
    /\ sch \in IndexConfigs
    /\ locations \in {l \in LocationLists : Len(l) = 1}
    /\ scheduleGrid = [n \in {locations[k].name : k \in 1..Len(locations)} |->
                          EmptyRow(sch)]
    /\ unscheduledCount = 0
    /\ metrics = <<0, 0, 0, 0>>
    /\ ev = <<>>
    /\ events = <<>>
    /\ seed = <<>>
    /\ rng = 0
    /\ failures = 0
    /\ waitingList = <<>>
    /\ finalList = <<>>
    /\ unscheduled = <<>>
    /\ currentBatch = <<>>
    /\ pc = "indices"
    /\ idx = 1
    /\ cand = 1
    /\ lastCall = NoCall
    /\ overflow = [U |-> 0, passes |-> 0]
    /\ runNo = 1
    /\ firstRun = <<>>
    /\ gen = <<>>
    /\ ret = <<>>

\* schedule.getIndicesForEvent(eventTimeObj) called from outside, once
GetIndicesCall ==
    /\ pc = "indices"
    /\ ret = <<>>
    /\ \E t \in TimeObjs :
           ret' = <<[timeObj |-> t, result |-> GetIndicesForEvent(sch, t)]>>
    /\ UNCHANGED <<gen, sch, locations, scheduleGrid, unscheduledCount, metrics,
                   ev, events, seed, rng, failures, waitingList, finalList,
                   unscheduled, currentBatch, pc, idx, cand, lastCall, overflow,
                   runNo, firstRun>>

NextIndices == GetIndicesCall

SpecIndices == InitIndices /\ [][NextIndices]_vars

(***************************************************************************)
(* createSchedule with a minimum gap on activities at the edges of the     *)
(* weekdays: the last slot of Monday and the first slot of Tuesday.        *)
(***************************************************************************)
\* the catalogue with its first two activities moved to Tuesday 08:00-08:10
\* and to Monday 08:20-08:30
DayEdgeCatalogue ==
    [k \in DOMAIN Catalogue |->
        IF k = 1 THEN [Catalogue[k] EXCEPT !.days = <<"T">>]
        ELSE IF k = 2 THEN [Catalogue[k] EXCEPT !.startMin = 500, !.endMin = 510]
        ELSE Catalogue[k]]

InitDays ==
    /\ sch \in {c \in Configs : c.timeGap > 0}
    /\ locations \in {l \in LocationLists : Len(l) = 1}
    /\ scheduleGrid = [n \in {locations[k].name : k \in 1..Len(locations)} |->
                          EmptyRow(sch)]
    /\ unscheduledCount = 0
    /\ metrics = <<0, 0, 0, 0>>
    /\ \E q \in EventLists :
          /\ ev = [k \in 1..Len(q) |-> DayEdgeCatalogue[q[k]]]
          /\ events = [k \in 1..Len(q) |-> k]
    /\ seed \in Seeds
    /\ rng = 0
    /\ failures = 0
    /\ waitingList = <<>>
    /\ finalList = <<>>
    /\ unscheduled = <<>>
    /\ currentBatch = <<>>
    /\ pc = "start"
    /\ idx = 1
    /\ cand = 1
    /\ lastCall = NoCall
    /\ overflow = [U |-> 0, passes |-> 0]
    /\ runNo = 1
    /\ firstRun = <<>>
    /\ gen = <<>>
    /\ ret = <<>>

SpecDays == InitDays /\ [][Next]_vars

(***************************************************************************)
(* createSchedule on activities whose start and end are not on a slot      *)
(* boundary, or whose end is not after their start.                        *)
(***************************************************************************)
\* the catalogue with its first activity moved to Monday 08:05-08:15, and
\* two activities of unknown building given the windows 08:10-08:10 and
\* 08:20-08:10
OddWindowCatalogue ==
    [k \in DOMAIN Catalogue |->
        IF k = 1 THEN [Catalogue[k] EXCEPT !.startMin = 485, !.endMin = 495]
        ELSE IF k = 9 THEN [Catalogue[k] EXCEPT !.startMin = 490, !.endMin = 490]
        ELSE IF k = 10 THEN [Catalogue[k] EXCEPT !.startMin = 500, !.endMin = 490]
        ELSE Catalogue[k]]

InitMinutes ==
    /\ sch \in Configs
    /\ locations \in {l \in LocationLists : Len(l) = 1}
    /\ scheduleGrid = [n \in {locations[k].name : k \in 1..Len(locations)} |->
                          EmptyRow(sch)]
    /\ unscheduledCount = 0
    /\ metrics = <<0, 0, 0, 0>>
    /\ \E q \in EventLists :
          /\ ev = [k \in 1..Len(q) |-> OddWindowCatalogue[q[k]]]
          /\ events = [k \in 1..Len(q) |-> k]
    /\ seed \in Seeds
    /\ rng = 0
    /\ failures = 0
    /\ waitingList = <<>>
    /\ finalList = <<>>
    /\ unscheduled = <<>>
    /\ currentBatch = <<>>
    /\ pc = "start"
    /\ idx = 1
    /\ cand = 1
    /\ lastCall = NoCall
    /\ overflow = [U |-> 0, passes |-> 0]
    /\ runNo = 1
    /\ firstRun = <<>>
    /\ gen = <<>>
    /\ ret = <<>>

SpecMinutes == InitMinutes /\ [][Next]_vars

(***************************************************************************)
(* Properties.                                                             *)
(***************************************************************************)
Placed(e) == ev[e].placedLocation # <<>>

\* the slots of row n that hold event e
SlotsOf(n, e) == {k \in 0..(Len(scheduleGrid[n]) - 1) : scheduleGrid[n][k + 1] = e}

\* the positions in this.locations of the rooms the caller supplied
RealLocations == 1..(Len(locations) - unscheduledCount)

\* C1: in every state of a run (so after every placement step), two distinct
\* placed activities assigned to the same resource have recorded slot ranges
\* that do not intersect.
NoOverlap ==
    \A a \in DOMAIN ev : \A b \in DOMAIN ev :
        (a # b /\ Placed(a) /\ ev[a].placedLocation = ev[b].placedLocation)
            => RangeSlots(ev[a].indices) \cap RangeSlots(ev[b].indices) = {}

\* C1 witness: the run has returned with two activities placed in the same
\* resource on non-empty slot ranges.
NoOverlapWitness ==
    /\ pc = "done"
    /\ \E a \in DOMAIN ev : \E b \in DOMAIN ev :
          /\ a # b /\ Placed(a)
          /\ ev[a].placedLocation = ev[b].placedLocation
          /\ RangeSlots(ev[a].indices) # {}
          /\ RangeSlots(ev[b].indices) # {}

GapSlots == CeilDiv(sch.timeGap, sch.interval)

\* the grid slots within GapSlots before start or after end, clipped
Neighbours(n, start, end) ==
    {k \in 0..(Len(scheduleGrid[n]) - 1) :
        \/ start - GapSlots <= k /\ k < start
        \/ end <= k /\ k < end + GapSlots}

\* C3: after createSchedule with minGap > 0, for every placed activity and
\* every range [s, e) of it with s # 0, no grid slot of its resource within
\* ceil(minGap/interval) slots before s or after e holds another activity.
GapRespected ==
    (pc = "done" /\ sch.timeGap > 0) =>
        \A e \in DOMAIN ev : Placed(e) =>
            \A n \in 1..Len(ev[e].indices) :
                ev[e].indices[n][1] # 0 =>
                    \A k \in Neighbours(ev[e].placedLocation,
                                        ev[e].indices[n][1], ev[e].indices[n][2]) :
                        scheduleGrid[ev[e].placedLocation][k + 1] \in {0, e}

\* C4: after createSchedule, the four counters plus the number of activities
\* with no placed resource equal the number of activities passed in.
Conservation ==
    pc = "done" =>
        metrics[1] + metrics[2] + metrics[3] + metrics[4]
            + Cardinality({e \in DOMAIN ev : ~Placed(e)}) = Len(events)

\* C4 witness: the run has returned with a desired placement, a placement
\* of another tier and an activity left unscheduled.
ConservationWitness ==
    /\ pc = "done"
    /\ metrics[1] > 0
    /\ metrics[2] + metrics[3] + metrics[4] > 0
    /\ \E e \in DOMAIN ev : ~Placed(e)

\* the per-activity outcomes, metrics, failure count and overflow resources
\* of the two runs are the same
SameOutcome == Outcome = firstRun[1]

\* C5: for a fixed seed and fixed input, two independent createSchedule runs
\* on fresh Schedule instances produce identical per-activity outcomes,
\* metrics, failure count and set of overflow resources.
Determinism == (pc = "done" /\ runNo = 2 /\ seed # <<>>) => SameOutcome

\* the bound of the Phase 4 loop: whenever the loop condition is tested the
\* passes made and the activities still pending number at most U together,
\* U the size of the unscheduled pool when Phase 4 starts, and one overflow
\* resource has been made per pass
PassesBounded ==
    /\ overflow.passes <= overflow.U
    /\ pc = "phase4" => overflow.passes + Len(unscheduled) <= overflow.U
    /\ pc \in {"metrics", "done"} =>
          unscheduledCount = overflow.passes /\ unscheduledCount <= overflow.U

\* C6: the Phase 4 loop always terminates and performs at most U passes, so
\* makes at most U overflow resources, U the size of the unscheduled pool
\* when Phase 4 starts, also when pending activities can never be placed.
OverflowBounded == []PassesBounded /\ <>(pc = "done")

\* C6 witness: the run has returned after as many passes as activities were
\* pending, the last pass placing nothing and leaving an activity pending.
OverflowWitness ==
    /\ pc = "done"
    /\ overflow.U >= 2
    /\ overflow.passes = overflow.U
    /\ Len(unscheduled) > 0

\* no row of the grid holds event e
Unreferenced(e) == \A n \in DOMAIN scheduleGrid : SlotsOf(n, e) = {}

UnknownBldg(e) == ev[e].bldgCode = StrUndefined \/ ev[e].bldgCode = StrNan

\* the scenario of C8: A and B are the two activities, with the same weekdays
\* and window, within bounds and on active days, both of unknown building,
\* and the one real resource holds A's attendees but not B's
TwoForOneRoom(a, b) ==
    /\ DOMAIN ev = {a, b} /\ a # b
    /\ Len(locations) - unscheduledCount = 1
    /\ ev[a].days = ev[b].days
    /\ ev[a].startMin = ev[b].startMin /\ ev[a].endMin = ev[b].endMin
    /\ ev[a].startMin >= sch.schStartMin /\ ev[a].endMin <= sch.schEndMin
    /\ \A k \in 1..Len(ev[a].days) : HasDay(sch, ev[a].days[k])
    /\ UnknownBldg(a) /\ UnknownBldg(b)
    /\ locations[1].capacity >= ev[a].seats
    /\ locations[1].capacity < ev[b].seats

\* C8: in that scenario, for every seed, after createSchedule A is placed in
\* the real resource with tier 1, B is placed in an overflow resource and in
\* no real one, and exactly one overflow resource has been created.
ScenarioOutcome ==
    \A a \in DOMAIN ev : \A b \in DOMAIN ev :
        (pc = "done" /\ TwoForOneRoom(a, b)) =>
            /\ ev[a].placedLocation = locations[1].name
            /\ ev[a].metric = 1
            /\ unscheduledCount = 1
            /\ Len(locations) = 2
            /\ ev[b].placedLocation = locations[2].name
            /\ ev[b].placedLocation # locations[1].name

\* the activity can be placed in no resource: none of its weekdays is
\* active, or its window is not within the schedule's bounds
Unplaceable(e) ==
    \/ \A k \in 1..Len(ev[e].days) : ~HasDay(sch, ev[e].days[k])
    \/ ev[e].startMin < sch.schStartMin
    \/ ev[e].endMin > sch.schEndMin

\* an unplaceable activity is in no grid row and has no placed resource, and
\* when the run returns it is still pending with no recorded ranges, the last
\* pass having placed nothing
StaysOut ==
    \A e \in DOMAIN ev :
        Unplaceable(e) =>
            /\ Unreferenced(e)
            /\ ~Placed(e)
            /\ pc = "done" =>
                  /\ ev[e].indices = <<>>
                  /\ \E k \in 1..Len(unscheduled) : unscheduled[k] = e
                  /\ Len(currentBatch) = Len(unscheduled)

\* C9: an activity on no active weekday or outside the schedule's bounds is
\* never written into a grid row, real or overflow; the run does not stop
\* short of returning, the overflow loop aborting on a pass that places
\* nothing; and the activity ends unscheduled with empty recorded ranges and
\* empty placed resource.
UnplaceableStaysOut == []StaysOut /\ <>(pc = "done")

\* C9 witness: the run has returned with an activity on no active weekday
\* and an activity outside the bounds, after a pass that placed another.
UnplaceableWitness ==
    /\ pc = "done"
    /\ \E e \in DOMAIN ev : \A k \in 1..Len(ev[e].days) : ~HasDay(sch, ev[e].days[k])
    /\ \E e \in DOMAIN ev : OutOfBounds(sch, ev[e])
    /\ \E e \in DOMAIN ev : Placed(e) /\ ev[e].placedLocation = VirtualName(0)
    /\ unscheduledCount = 2

\* C10: a placeEvent call that returns false leaves every row of the grid
\* and the activity's placedLocation as they were and the activity's recorded
\* ranges empty.
FailedCallChangesNothing ==
    [][(lastCall'.n # lastCall.n /\ ~lastCall'.result) =>
          /\ scheduleGrid' = scheduleGrid
          /\ ev'[lastCall'.event].placedLocation = ev[lastCall'.event].placedLocation
          /\ ev'[lastCall'.event].indices = <<>>]_vars

\* C10 witness: the last call failed for an activity of several ranges whose
\* first range was free in the room while a later one was taken.
FailedCallWitness ==
    /\ lastCall.n > 0
    /\ ~lastCall.result
    /\ LET e == lastCall.event
           ranges == GetIndicesForEvent(sch, ev[e])
           row == scheduleGrid[lastCall.loc]
       IN  /\ Len(ranges) >= 2
           /\ RangeSlots(<<ranges[1]>>) # {}
           /\ \A k \in RangeSlots(<<ranges[1]>>) : row[k + 1] = 0
           /\ \E k \in RangeSlots(ranges) : row[k + 1] # 0
           /\ \A k \in 1..Len(locations) :
                  locations[k].name = lastCall.loc => ~OverCapacity(ev[e], locations[k])

\* the step is a placeEvent call with force = true
ForcedCall == lastCall'.n # lastCall.n /\ lastCall'.force

\* the window of the activity starts before the schedule's start or ends
\* after its end, or no weekday of it yields a slot range
NoRanges(e) ==
    \/ ev[e].startMin < sch.schStartMin
    \/ ev[e].endMin > sch.schEndMin
    \/ GetIndicesForEvent(sch, ev[e]) = <<>>

\* C11: a placeEvent call with force = true returns false and changes neither
\* the grid nor any activity when the activity starts before the schedule's
\* start, ends after its end or has no slot ranges; in every other case it
\* returns true, whatever the room's capacity and occupancy, with the
\* activity written into every slot of its ranges in that room.
OverrideChecksBoundsOnly ==
    [][ForcedCall =>
          LET e == lastCall'.event
              n == lastCall'.loc
          IN  IF NoRanges(e)
              THEN /\ ~lastCall'.result
                   /\ scheduleGrid' = scheduleGrid
                   /\ ev' = ev
              ELSE /\ lastCall'.result
                   /\ ev'[e].placedLocation = n
                   /\ \A k \in RangeSlots(GetIndicesForEvent(sch, ev[e])) :
                          scheduleGrid'[n][k + 1] = e]_vars

\* C11 witness: the last call, with force = true, succeeded for an activity
\* with more attendees than the room holds, on slots that another activity
\* placed in that room had been given.
OverrideWitness ==
    /\ lastCall.n > 0
    /\ lastCall.force
    /\ lastCall.result
    /\ \E k \in 1..Len(locations) :
          /\ locations[k].name = lastCall.loc
          /\ ev[lastCall.event].seats > locations[k].capacity
    /\ \E b \in DOMAIN ev \ {lastCall.event} :
          /\ ev[b].placedLocation = lastCall.loc
          /\ RangeSlots(ev[b].indices)
                 \cap RangeSlots(ev[lastCall.event].indices) # {}

\* C12: a placeEvent call on an activity whose recorded ranges are not empty
\* returns false, writes the activity into no grid slot and leaves its
\* placedLocation and its recorded ranges as they were.
SecondCallRefused ==
    [][(lastCall'.n # lastCall.n /\ ev[lastCall'.event].indices # <<>>) =>
          /\ ~lastCall'.result
          /\ scheduleGrid' = scheduleGrid
          /\ ev'[lastCall'.event].placedLocation = ev[lastCall'.event].placedLocation
          /\ ev'[lastCall'.event].indices = ev[lastCall'.event].indices]_vars

\* an activity is written in the rows of two rooms at once
TwoAssignments ==
    \E e \in DOMAIN ev : \E n1 \in DOMAIN scheduleGrid : \E n2 \in DOMAIN scheduleGrid :
        n1 # n2 /\ SlotsOf(n1, e) # {} /\ SlotsOf(n2, e) # {}

\* C13: a configuration whose interval is 0 or below is rejected before the
\* run starts: createSchedule never gets to reset, shuffle or attempt an
\* activity, whatever the resource list, and no error is raised inside it.
BadIntervalRejected ==
    sch.interval <= 0 => pc \in {"new", "constructorThrew", "start"}

\* C13 witness: with an interval of 0 or below, createSchedule threw in
\* Phase 4 after it had reset, shuffled and counted failures for activities.
ThrownMidRun ==
    /\ sch.interval <= 0
    /\ pc = "createScheduleThrew"
    /\ failures > 0

\* C12 witness: one activity is written in the rows of two rooms after a
\* call without force.
TwoAssignmentsWitness == TwoAssignments /\ ~lastCall.force

\* C14: for every seed a caller supplies, 0 included, two Random instances
\* constructed with it start from the same state and, the same calls made
\* on both, stay in the same state, return the same values and give the same
\* shuffled arrays.
SameSeedSameStream == (seed # <<>> /\ gen # <<>>) => gen[1] = gen[2]

\* C14 witness: two instances made with the seed 0 have returned different
\* shuffles of the same array.
DifferentShufflesWitness ==
    /\ seed = <<0>>
    /\ gen # <<>>
    /\ gen[1].given # <<>>
    /\ gen[1].array # gen[2].array

Elements(a) == {a[k] : k \in 1..Len(a)}

\* C16: shuffle returns an array of the same length holding the same
\* elements, none lost, duplicated or replaced by an undefined entry, and
\* every swap index j satisfies 0 <= j <= i, for every generator state.
ShufflePermutes ==
    \A k \in DOMAIN gen :
        gen[k].given # <<>> =>
            /\ Len(gen[k].array) = Len(gen[k].given)
            /\ Elements(gen[k].array) = Elements(gen[k].given)
            /\ \A n \in DOMAIN SwapIndexes(gen[k].given, gen[k].from) :
                   LET ij == SwapIndexes(gen[k].given, gen[k].from)[n]
                   IN  0 <= ij[2] /\ ij[2] <= ij[1]

\* C16 witness: a shuffle has put an undefined entry into the array.
UndefinedEntryWitness ==
    \E k \in DOMAIN gen :
        /\ gen[k].given # <<>>
        /\ Len(gen[k].array) = Len(gen[k].given)
        /\ \E n \in 1..Len(gen[k].array) : gen[k].array[n] = 0

\* a building or room code is unknown: one of the sentinels of Phase 1
\* (lines 213 and 217) or the empty string of a missing field
UnknownCode(c) == c = StrUndefined \/ c = StrNan \/ c = <<>>

\* the building and the room of the resource an activity is placed in
PlacedBldg(e) == Part(ev[e].placedLocation, 0)

PlacedRoom(e) == Part(ev[e].placedLocation, 1)

\* the rules of the tiers: desired, same-building, preference
RuleDesired(e) ==
    \/ UnknownCode(ev[e].bldgCode)
    \/ ev[e].bldgCode = PlacedBldg(e) /\ ev[e].roomNumber = PlacedRoom(e)
    \/ ev[e].bldgCode = PlacedBldg(e) /\ UnknownCode(ev[e].roomNumber)

RuleSameBuilding(e) == ev[e].bldgCode = PlacedBldg(e)

RulePreference(e) ==
    /\ ev[e].dept \in DOMAIN sch.locationPreferences
    /\ \E n \in 1..Len(sch.locationPreferences[ev[e].dept]) :
           sch.locationPreferences[ev[e].dept][n] = PlacedBldg(e)

\* the first rule that matches, in the order 1 to 4
FirstRule(e) ==
    IF RuleDesired(e) THEN 1
    ELSE IF RuleSameBuilding(e) THEN 2
    ELSE IF RulePreference(e) THEN 3
    ELSE 4

\* C17: when createSchedule returns every placed activity holds the tier of
\* the first rule that matches it, in the order desired, same-building,
\* preference, other; every activity with no placed resource holds tier 0;
\* and each counter is the number of activities holding its tier.
TierIsFirstRule ==
    pc = "done" =>
        /\ \A e \in DOMAIN ev :
               ev[e].metric = IF Placed(e) THEN FirstRule(e) ELSE 0
        /\ \A t \in 1..4 :
               metrics[t] = Cardinality({e \in DOMAIN ev : ev[e].metric = t})

\* C17 witness: the run has returned with an activity placed in its
\* historical building whose room code is the sentinel "undefined".
UnknownRoomWitness ==
    /\ pc = "done"
    /\ \E e \in DOMAIN ev :
          /\ Placed(e)
          /\ ev[e].roomNumber = StrUndefined
          /\ ev[e].bldgCode = PlacedBldg(e)

\* C18: when createSchedule returns every placed activity whose historical
\* building code is one of the sentinels Phase 1 routes as unknown,
\* "undefined" and "nan", holds tier 1.
UnknownBuildingIsDesired ==
    pc = "done" =>
        \A e \in DOMAIN ev : (Placed(e) /\ UnknownBldg(e)) => ev[e].metric = 1

\* C18 witness: the run has returned with an activity of building code
\* "undefined" placed in a real resource.
UndefinedPlacedWitness ==
    /\ pc = "done"
    /\ \E e \in DOMAIN ev : \E k \in RealLocations :
          /\ ev[e].bldgCode = StrUndefined
          /\ ev[e].placedLocation = locations[k].name

\* the step is a placeEvent call for activity e
CallFor(e) == lastCall'.n # lastCall.n /\ lastCall'.event = e

\* C19: an activity whose historical building code is unknown ("nan",
\* "undefined" or the empty string of a missing field) is routed by Phase 1
\* straight to the preference pool: the step of Phase 1 that handles it adds
\* it to that pool, makes no placement attempt and leaves the failure counter
\* alone, and no attempt is made for it in Phase 1 or Phase 2.
UnknownBypasses ==
    [][\A e \in DOMAIN ev :
          UnknownCode(ev[e].bldgCode) =>
              /\ (pc = "phase1" /\ idx <= Len(events) /\ events[idx] = e) =>
                     /\ finalList' = Append(finalList, e)
                     /\ waitingList' = waitingList
                     /\ failures' = failures
                     /\ lastCall' = lastCall
              /\ (pc \in {"phase1", "phase2"}) => ~CallFor(e)]_vars

\* C19 witness: Phase 2 has made a placement attempt for an activity whose
\* building code is the empty string, after Phase 1 counted a failure.
EmptyBuildingWitness ==
    /\ pc = "phase2"
    /\ lastCall.n > 0
    /\ ev[lastCall.event].bldgCode = <<>>
    /\ failures > 0

\* the positions, in list order, of the resources whose building code (the
\* name up to its first space) is the activity's historical building code
SameBuildingLocs(e) ==
    Ascending({k \in 1..Len(locations) :
                  Part(locations[k].name, 0) = ev[e].bldgCode})

\* C20: a step of Phase 2 for an activity with no resource of its building
\* code routes it to the preference pool with no placement attempt and no
\* failure counted; otherwise it attempts the next resource of that building
\* code in list order, moves on at the first success, and counts a failure
\* and routes the activity to the preference pool when the last one fails.
Phase2TriesSameBuilding ==
    [][(pc = "phase2" /\ idx <= Len(waitingList)) =>
          LET e == waitingList[idx]
              same == SameBuildingLocs(e)
          IN  IF same = <<>>
              THEN /\ lastCall' = lastCall
                   /\ failures' = failures
                   /\ finalList' = Append(finalList, e)
                   /\ idx' = idx + 1
              ELSE /\ CallFor(e)
                   /\ cand <= Len(same)
                   /\ lastCall'.loc = locations[same[cand]].name
                   /\ IF lastCall'.result
                      THEN idx' = idx + 1 /\ failures' = failures
                               /\ finalList' = finalList
                      ELSE IF cand = Len(same)
                      THEN idx' = idx + 1 /\ failures' = failures + 1
                               /\ finalList' = Append(finalList, e)
                      ELSE idx' = idx /\ cand' = cand + 1
                               /\ failures' = failures
                               /\ finalList' = finalList]_vars

\* C20 witness: Phase 2 has placed an activity in a resource of another
\* building, whose name begins with the activity's building code.
OtherBuildingWitness ==
    /\ pc = "phase2"
    /\ lastCall.n > 0
    /\ lastCall.result
    /\ Part(lastCall.loc, 0) # ev[lastCall.event].bldgCode
    /\ StartsWith(lastCall.loc, ev[lastCall.event].bldgCode)
    /\ ev[lastCall.event].bldgCode # <<>>

\* the positions of the resources of building b (the name up to its first
\* space), in list order
LocsOfBuilding(b) ==
    Ascending({k \in 1..Len(locations) : Part(locations[k].name, 0) = b})

\* seq followed by the members of more that are not in it, each once
RECURSIVE AppendNew(_, _)
AppendNew(seq, more) ==
    IF more = <<>> THEN seq
    ELSE AppendNew(IF \E n \in 1..Len(seq) : seq[n] = Head(more) THEN seq
                   ELSE Append(seq, Head(more)),
                   Tail(more))

\* the resources of the first n preferred buildings, without duplicates
RECURSIVE PreferredOnce(_, _)
PreferredOnce(prefBldgs, n) ==
    IF n = 0 THEN <<>>
    ELSE AppendNew(PreferredOnce(prefBldgs, n - 1), LocsOfBuilding(prefBldgs[n]))

\* the candidates of an activity in Phase 3: the resources of the preferred
\* buildings of its department, then all remaining resources in input order
Candidates(e) ==
    AppendNew(IF ev[e].dept \in DOMAIN sch.locationPreferences
              THEN PreferredOnce(sch.locationPreferences[ev[e].dept],
                                 Len(sch.locationPreferences[ev[e].dept]))
              ELSE <<>>,
              Ascending(1..Len(locations)))

\* C21: a step of Phase 3 for an activity attempts the next candidate of a
\* list that holds every resource exactly once, the resources of the
\* preferred buildings of its department first, in configuration order and
\* without duplicates, then the remaining ones in input order; it moves on at
\* the first success, and when the last candidate fails.
Phase3TriesEachOnce ==
    [][(pc = "phase3" /\ idx <= Len(finalList) /\ Len(locations) > 0) =>
          LET e == finalList[idx]
              list == Candidates(e)
          IN  /\ Len(list) = Len(locations)
              /\ \A k \in 1..Len(locations) : \E n \in 1..Len(list) : list[n] = k
              /\ CallFor(e)
              /\ cand <= Len(list)
              /\ lastCall'.loc = locations[list[cand]].name
              /\ IF lastCall'.result \/ cand = Len(list)
                 THEN idx' = idx + 1
                 ELSE idx' = idx /\ cand' = cand + 1]_vars

\* C21 witness: Phase 3 is about to attempt a candidate whose position in
\* the list is beyond the number of resources.
RepeatedCandidateWitness ==
    /\ pc = "phase3"
    /\ idx <= Len(finalList)
    /\ cand > Len(locations)
    /\ ~lastCall.result

\* the names of the resources in this.locations
LocationNames == {locations[k].name : k \in 1..Len(locations)}

\* no two resources of this.locations have the same name
NamesUnique ==
    \A j \in 1..Len(locations) : \A k \in 1..Len(locations) :
        locations[j].name = locations[k].name => j = k

\* C22: a step that appends an overflow resource gives it a name no resource
\* of the list has, caller-supplied ones included, so that names stay
\* pairwise unique; the grid gets one new, empty row and every row it had
\* keeps its contents.
OverflowNameIsNew ==
    [][(Len(locations') > Len(locations) /\ NamesUnique) =>
          LET name == locations'[Len(locations')].name
          IN  /\ name \notin LocationNames
              /\ NamesUnique'
              /\ DOMAIN scheduleGrid' = DOMAIN scheduleGrid \cup {name}
              /\ name \notin DOMAIN scheduleGrid
              /\ \A k \in 1..Len(scheduleGrid'[name]) : scheduleGrid'[name][k] = 0
              /\ \A n \in DOMAIN scheduleGrid : scheduleGrid'[n] = scheduleGrid[n]]_vars

\* C22 witness: the run has returned with two resources of the same name,
\* and an activity placed in the caller's one is in no slot of the grid.
SharedNameWitness ==
    /\ pc = "done"
    /\ ~NamesUnique
    /\ \E e \in DOMAIN ev :
          /\ Placed(e)
          /\ RangeSlots(ev[e].indices) # {}
          /\ Unreferenced(e)

\* the activity is not structurally unplaceable: its window is within the
\* schedule's bounds and getIndicesForEvent yields a range for it
Placeable(e) ==
    /\ ev[e].startMin >= sch.schStartMin
    /\ ev[e].endMin <= sch.schEndMin
    /\ GetIndicesForEvent(sch, ev[e]) # <<>>

\* C23: when createSchedule returns, every activity whose window is within
\* the schedule's bounds and that has at least one slot range is placed, in a
\* real or an overflow resource, whatever its attendee count and whatever
\* the other activities are.
EveryPlaceablePlaced ==
    pc = "done" => \A e \in DOMAIN ev : Placeable(e) => Placed(e)

\* C23 witness: the run has returned with an activity within bounds and with
\* a slot range left unplaced after an overflow resource refused it, the
\* activity having more attendees than the overflow resource holds.
CrowdRefusedWitness ==
    /\ pc = "done"
    /\ unscheduledCount > 0
    /\ \E e \in DOMAIN ev :
          /\ Placeable(e)
          /\ ~Placed(e)
          /\ ev[e].seats > locations[Len(locations)].capacity
          /\ lastCall.event = e
          /\ lastCall.loc = locations[Len(locations)].name
          /\ ~lastCall.result

\* a slot among the ceil(minGap / interval) slots right after slot end of row
\* n is occupied
OccupiedAfter(n, end) ==
    \E k \in end..(end + GapSlots - 1) :
        k < Len(scheduleGrid[n]) /\ scheduleGrid[n][k + 1] # 0

\* C24: a placeEvent call without force, with minGap > 0, for an activity
\* within bounds one of whose ranges begins at absolute slot 0, is rejected
\* when one of the ceil(minGap / interval) slots right after that range is
\* occupied.
GapAfterCheckedAtZero ==
    [][(lastCall'.n # lastCall.n /\ ~lastCall'.force /\ sch.timeGap > 0) =>
          LET e == lastCall'.event
              ranges == GetIndicesForEvent(sch, ev[e])
          IN  (/\ ~OutOfBounds(sch, ev[e])
               /\ \E n \in 1..Len(ranges) :
                      /\ ranges[n][1] = 0
                      /\ OccupiedAfter(lastCall'.loc, ranges[n][2]))
                  => ~lastCall'.result]_vars

\* C24 witness: with minGap > 0 the last call, without force, placed an
\* activity on a range that begins at slot 0 while the slot right after the
\* range holds another activity.
PlacedAgainstNeighbourWitness ==
    /\ sch.timeGap > 0
    /\ lastCall.n > 0
    /\ lastCall.result
    /\ ~lastCall.force
    /\ \E n \in 1..Len(ev[lastCall.event].indices) :
          LET r == ev[lastCall.event].indices[n]
          IN  /\ r[1] = 0
              /\ r[2] < Len(scheduleGrid[lastCall.loc])
              /\ scheduleGrid[lastCall.loc][r[2] + 1] \notin {0, lastCall.event}

\* Phase 1 attempts the activity at a resource: neither code is a sentinel
\* of lines 213 and 217, and findLoc resolves its historical location
HistoricalLoc(e) ==
    IF \/ ev[e].bldgCode = StrUndefined \/ ev[e].bldgCode = StrNan
       \/ ev[e].roomNumber = StrUndefined \/ ev[e].roomNumber = StrNan
    THEN 0
    ELSE FindLoc(locations, PastLocationString(ev[e]))

\* the activity is placed at the resource findLoc resolves for it
AtHistoricalLoc(e) ==
    /\ HistoricalLoc(e) # 0
    /\ ev[e].placedLocation = locations[HistoricalLoc(e)].name

\* C25: when createSchedule returns, every activity placed at its historical
\* resource, the one findLoc resolves from its building and room code (a room
\* code "00" or "000" resolving to room "0"), holds tier 1.
HistoricalIsDesired ==
    pc = "done" => \A e \in DOMAIN ev : AtHistoricalLoc(e) => ev[e].metric = 1

\* C25 witness: the run has returned with an activity of room code "00"
\* placed at the resource of room "0" that findLoc resolved for it.
ZeroRoomWitness ==
    /\ pc = "done"
    /\ \E e \in DOMAIN ev :
          /\ AtHistoricalLoc(e)
          /\ ev[e].roomNumber = <<"0", "0">>
          /\ PlacedRoom(e) = <<"0">>

\* the slots a day has, and the first slot of the day at position d of the
\* active weekdays
SlotsPerDay == (sch.schEndMin - sch.schStartMin) \div sch.interval

FirstSlot(d) == (d - 1) * SlotsPerDay

\* the range the activity's window maps to on the active day at position d:
\* from the day's first slot plus floor(timeOffset / interval), for
\* ceil(duration / interval) slots
WindowRange(t, d) ==
    LET start == FirstSlot(d) + (t.startMin - sch.schStartMin) \div sch.interval
        duration == t.endMin - t.startMin
        slots == IF duration % sch.interval = 0 THEN duration \div sch.interval
                 ELSE duration \div sch.interval + 1
    IN  <<start, start + slots>>

\* the range lies inside the span of the active day at position d
InsideDay(r, d) == FirstSlot(d) <= r[1] /\ r[2] <= FirstSlot(d) + SlotsPerDay

\* the ranges due for the weekdays of t from position k on: one for each
\* that is an active weekday and whose range lies inside the day's span
RECURSIVE RangesDue(_, _)
RangesDue(t, k) ==
    IF k > Len(t.days) THEN <<>>
    ELSE LET act == {d \in 1..Len(sch.shortDays) : sch.shortDays[d] = t.days[k]}
         IN  (IF act # {} /\ InsideDay(WindowRange(t, CHOOSE d \in act : TRUE),
                                       CHOOSE d \in act : TRUE)
              THEN <<WindowRange(t, CHOOSE d \in act : TRUE)>>
              ELSE <<>>) \o RangesDue(t, k + 1)

\* C26: getIndicesForEvent returns no range for an activity that starts
\* before the schedule's start; otherwise it returns, in the order of the
\* activity's weekdays, one range for each weekday that is active and whose
\* range [dayOffset + floor(timeOffset / interval), start + ceil(duration /
\* interval)) lies inside the day's own span, and no other; no slot of a
\* returned range belongs to another weekday or lies past the end of the grid.
IndicesAsSpecified ==
    \A c \in DOMAIN ret :
        LET t == ret[c].timeObj
            result == ret[c].result
        IN  /\ t.startMin < sch.schStartMin => result = <<>>
            /\ t.startMin >= sch.schStartMin => result = RangesDue(t, 1)
            /\ \A n \in 1..Len(result) :
                   \E d \in 1..Len(sch.shortDays) :
                       /\ \E k \in 1..Len(t.days) : t.days[k] = sch.shortDays[d]
                       /\ \A slot \in result[n][1]..(result[n][2] - 1) :
                              /\ FirstSlot(d) <= slot
                              /\ slot < FirstSlot(d) + SlotsPerDay
                              /\ slot < Len(EmptyRow(sch))

\* C26 witness: the call returned two ranges for an activity of three
\* weekdays, one of them inactive, whose start is not on a slot boundary and
\* whose last range ends with the grid.
IndicesWitness ==
    \E c \in DOMAIN ret :
        /\ Len(ret[c].timeObj.days) = 3
        /\ Len(ret[c].result) = 2
        /\ (ret[c].timeObj.startMin - sch.schStartMin) % sch.interval # 0
        /\ ret[c].result[2][2] = Len(EmptyRow(sch))
        /\ ret[c].result[2][1] < ret[c].result[2][2]

\* the pool the running phase works through, and the pool it hands on to
PoolOf(p) ==
    IF p = "phase1" THEN events ELSE IF p = "phase2" THEN waitingList
    ELSE finalList

\* Phase 1 misses: it attempts the activity and its historical resource does
\* not exist
Phase1Miss(e) ==
    /\ pc = "phase1"
    /\ ev[e].bldgCode # StrUndefined /\ ev[e].bldgCode # StrNan
    /\ ev[e].roomNumber # StrUndefined /\ ev[e].roomNumber # StrNan
    /\ HistoricalLoc(e) = 0

\* the failure counter is within its bounds
FailuresBounded == 0 <= failures /\ failures <= 3 * Len(events)

DaySpan(k) ==
    LET day == k \div DayIntervals(sch)
    IN  (day * DayIntervals(sch))..((day + 1) * DayIntervals(sch) - 1)

\* the slots within ceil(minGap / interval) slots before or after the range
\* r that belong to the range's own weekday
SameDayNeighbours(r) ==
    {k \in DaySpan(r[1]) :
        \/ r[1] - GapSlots <= k /\ k < r[1]
        \/ r[2] <= k /\ k < r[2] + GapSlots}

\* nothing of the activity's own weekdays stands against placing it in row
\* n: it is within bounds, has ranges and fits the room, and the slots of its
\* ranges and their neighbours of the same weekday are empty
FreeOnItsDays(e, k) ==
    LET ranges == GetIndicesForEvent(sch, ev[e])
        row == scheduleGrid[locations[k].name]
    IN  /\ ~OutOfBounds(sch, ev[e])
        /\ ranges # <<>>
        /\ ev[e].seats <= locations[k].capacity
        /\ \A n \in 1..Len(ranges) :
               /\ ranges[n][1] < ranges[n][2]
               /\ \A slot \in ranges[n][1]..(ranges[n][2] - 1) : row[slot + 1] = 0
               /\ \A slot \in SameDayNeighbours(ranges[n]) : row[slot + 1] = 0

\* C28: with minGap > 0, a placeEvent call without force is not rejected when
\* the only occupied slots near the activity's ranges belong to another
\* weekday's span: an activity at the end of one weekday does not block one
\* at the start of the next.
OtherDayDoesNotBlock ==
    [][\A k \in 1..Len(locations) :
          (/\ lastCall'.n # lastCall.n
           /\ ~lastCall'.force
           /\ lastCall'.loc = locations[k].name
           /\ sch.timeGap > 0
           /\ FreeOnItsDays(lastCall'.event, k))
              => lastCall'.result]_vars

\* C28 witness: with minGap > 0 the last call was rejected for an activity
\* that fits the room and whose slots and same-day neighbours were empty,
\* the slot next to one of its ranges, on another weekday, being occupied.
OtherDayBlockedWitness ==
    /\ sch.timeGap > 0
    /\ lastCall.n > 0
    /\ ~lastCall.result
    /\ ~lastCall.force
    /\ \E k \in 1..Len(locations) :
          /\ lastCall.loc = locations[k].name
          /\ FreeOnItsDays(lastCall.event, k)
          /\ \E n \in 1..Len(GetIndicesForEvent(sch, ev[lastCall.event])) :
                LET r == GetIndicesForEvent(sch, ev[lastCall.event])[n]
                IN  \E slot \in {r[1] - 1, r[2]} :
                        /\ slot \in 0..(Len(scheduleGrid[lastCall.loc]) - 1)
                        /\ slot \notin DaySpan(r[1])
                        /\ scheduleGrid[lastCall.loc][slot + 1] # 0

\* two activities have a weekday in common
ShareWeekday(a, b) ==
    \E j \in 1..Len(ev[a].days) : \E k \in 1..Len(ev[b].days) :
        ev[a].days[j] = ev[b].days[k]

\* the time windows [startMin, endMin) of two activities intersect
WindowsIntersect(a, b) ==
    /\ ev[a].startMin < ev[b].endMin /\ ev[b].startMin < ev[a].endMin
    /\ ev[a].startMin < ev[a].endMin /\ ev[b].startMin < ev[b].endMin

\* C29: when createSchedule returns, two distinct activities placed in the
\* same resource that share a weekday have time windows [startMin, endMin)
\* that do not intersect, also when the minutes are not multiples of the
\* slot interval.
NoWindowOverlap ==
    pc = "done" =>
        \A a \in DOMAIN ev : \A b \in DOMAIN ev :
            (/\ a # b /\ Placed(a)
             /\ ev[a].placedLocation = ev[b].placedLocation
             /\ ShareWeekday(a, b))
                => ~WindowsIntersect(a, b)

\* C29 witness: the run has returned with two activities in the same
\* resource on the same weekday, on slot ranges that do not intersect, the
\* first ending after the second has begun.
WindowOverlapWitness ==
    /\ pc = "done"
    /\ \E a \in DOMAIN ev : \E b \in DOMAIN ev :
          /\ a # b /\ Placed(a)
          /\ ev[a].placedLocation = ev[b].placedLocation
          /\ ShareWeekday(a, b)
          /\ RangeSlots(ev[a].indices) # {} /\ RangeSlots(ev[b].indices) # {}
          /\ RangeSlots(ev[a].indices) \cap RangeSlots(ev[b].indices) = {}
          /\ ev[a].startMin < ev[b].startMin
          /\ ev[b].startMin < ev[a].endMin

\* C30: after a placeEvent call that returns true the activity is in at
\* least one slot of the row of the chosen resource, also when its window,
\* within the schedule's bounds, ends at or before its start.
PlacedOccupiesSlot ==
    [][(lastCall'.n # lastCall.n /\ lastCall'.result) =>
          \E k \in 1..Len(scheduleGrid'[lastCall'.loc]) :
              scheduleGrid'[lastCall'.loc][k] = lastCall'.event]_vars

\* C30 witness: the last call returned true for an activity within bounds
\* whose window ends at or before its start, and the activity, with a placed
\* resource and a recorded range, is in no slot of the grid.
PlacedNowhereWitness ==
    /\ lastCall.n > 0
    /\ lastCall.result
    /\ ev[lastCall.event].endMin <= ev[lastCall.event].startMin
    /\ ~OutOfBounds(sch, ev[lastCall.event])
    /\ ev[lastCall.event].placedLocation = lastCall.loc
    /\ ev[lastCall.event].indices # <<>>
    /\ Unreferenced(lastCall.event)

=============================================================================
